---- MODULE Spec2Model ----
(***************************************************************************)
(* Model of the flowchart editor of src/components/flowchart/              *)
(* FlowchartCanvas.tsx (second definition of the file, lines 543-3007):    *)
(* the FlowchartCanvas component state (nodes, edges, nodeCounter,         *)
(* history, historyIndex, connectingFrom, dragLine, draggingNode,          *)
(* currentScale), the per-node gesture handlers of DraggableNode and the   *)
(* asynchronous startup load.                                              *)
(*                                                                         *)
(* Every handler is one atomic action on the state of the latest render:   *)
(* DraggableNode reads its callbacks and props through refs that are       *)
(* rewritten on every render (lines 717-748), and React commits the state  *)
(* updates of one event before the next event is handled.                  *)
(*                                                                         *)
(* Touch handling follows the responder rules the code asks for: every     *)
(* PanResponder of a node answers onPanResponderTerminationRequest with    *)
(* false (lines 764, 801), so while a node drag or an edge drag holds the  *)
(* responder no other touch target (buttons, menu, other nodes) receives   *)
(* a press.  Only the asynchronous load and the clock run during a         *)
(* gesture.  When the node of a gesture leaves the node list its           *)
(* component is unmounted and its handlers are no longer called.           *)
(***************************************************************************)
EXTENDS Integers, Sequences, FiniteSets, TLC

(***************************************************************************)
(* Program constants                                                       *)
(***************************************************************************)
CANVAS_SIZE == 3000
NODE_WIDTH == 150
NODE_HEIGHT == 50
HistoryLimit == 50
DoubleTapWindow == 300
DoubleTapGap == 100
HitMargin == 20
DragThreshold == 5

NodeTypes == {"rectangle", "diamond", "oval", "parallelogram", "hexagon", "storage"}
Positions == {"top", "bottom", "left", "right"}
\* only the top and the bottom connection point carry a PanResponder
GesturePositions == {"top", "bottom"}

None == [kind |-> "none"]
NoRefs == [id \in {} |-> 0]

(***************************************************************************)
(* Bounds of the model                                                     *)
(***************************************************************************)
MaxNodes == 2
MaxEdges == 2
MaxHistLen == 3
MaxElapsed == 150
MaxLongX == 1791
MaxZoomSteps == 1

StartTime == 1000
TickSteps == {150}
\* node kinds offered to addNode in the general specification
SpecKinds == {"rectangle"}
\* connection points offered to tap-to-connect in the general specification
TapPositions == {"right"}
\* cumulative pointer displacement (gestureState.dx, gestureState.dy) of a node drag
NodeDragDeltas == {<<6, 0>>}
\* cumulative pointer displacement of an edge drag
ConnDragDeltas == {<<0, 0>>, <<0, 100>>}

(***************************************************************************)
(* Helpers                                                                 *)
(***************************************************************************)
Min(a, b) == IF a < b THEN a ELSE b
Abs(a) == IF a < 0 THEN -a ELSE a

\* Lengths and coordinates are kept in half pixels, so that height / 2 of the
\* storage kind (85 / 2) is exact.
Px(n) == 2 * n
Half(a) == a \div 2

Doc(ns, es, c) == [nodes |-> ns, edges |-> es, nodeCounter |-> c]
EmptyDoc == Doc(<<>>, <<>>, 1)

NodeIds(ns) == {ns[i].id : i \in 1..Len(ns)}

\* Array.prototype.find: the first element whose id matches, or None
FindNode(ns, id) ==
  IF \E i \in 1..Len(ns) : ns[i].id = id
    THEN ns[CHOOSE i \in 1..Len(ns) : ns[i].id = id /\ \A j \in 1..(i-1) : ns[j].id # id]
    ELSE None

\* Scales are exact fractions <<numerator, denominator>> in lowest terms.
RECURSIVE Gcd(_, _)
Gcd(a, b) == IF b = 0 THEN a ELSE Gcd(b, a % b)
Frac(n, d) == <<n \div Gcd(n, d), d \div Gcd(n, d)>>
FracMul(a, b) == Frac(a[1] * b[1], a[2] * b[2])
FracDiv(a, b) == Frac(a[1] * b[2], a[2] * b[1])
FracLeq(a, b) == a[1] * b[2] <= b[1] * a[2]
FracMin(a, b) == IF FracLeq(a, b) THEN a ELSE b
FracMax(a, b) == IF FracLeq(a, b) THEN b ELSE a
FracAdd(a, b) == Frac(a[1] * b[2] + b[1] * a[2], a[2] * b[2])
FracSub(a, b) == Frac(a[1] * b[2] - b[1] * a[2], a[2] * b[2])
One == <<1, 1>>
MIN_SCALE == <<3, 10>>
MAX_SCALE == <<3, 1>>
ZoomFactor == <<6, 5>>

\* setTimeout(saveState, 500)
SaveDelay == 500
Timeout(doc, due) == [kind |-> "pending", doc |-> doc, due |-> due]

\* Dimensions.get("window") and the top safe-area inset of the device
SCREEN_WIDTH == 400
SCREEN_HEIGHT == 800
InsetsTop == 40
\* the resting pan offset that centres the canvas, in pixels
initialX == <<-(CANVAS_SIZE \div 2 - SCREEN_WIDTH \div 2), 1>>
initialY == <<-(CANVAS_SIZE \div 2 - SCREEN_HEIGHT \div 2), 1>>

RECURSIVE FracPow(_, _)
FracPow(a, k) == IF k = 0 THEN One ELSE FracMul(a, FracPow(a, k - 1))

\* division of a pointer displacement by the canvas scale
ScaleDiv(d, s) == (d * s[2]) \div s[1]

(***************************************************************************)
(* State                                                                   *)
(***************************************************************************)
VARIABLES
  nodes,            \* useState<Node[]>
  edges,            \* useState<Edge[]>
  nodeCounter,      \* useState(1)
  history,          \* useState<HistoryState[]>
  historyIndex,     \* useState(0); 0-based as in the source
  connectingFrom,   \* {nodeId, position} | null
  dragLine,         \* {startX, startY, endX, endY} | null
  draggingNode,     \* {id, x, y} | null
  currentScale,     \* useState(1), as <<numerator, denominator>>
  viewport,         \* the shared values scale, savedScale, translateX, ...
  pendingLoad,      \* the result AsyncStorage.getItem will deliver, or None once delivered
  now,              \* Date.now()
  responder,        \* the PanResponder that currently holds the touch, with the time
                    \* of its pointer-down and whether that was taken as a double tap
  isDraggingConnection, \* ids of the mounted nodes whose isDraggingConnectionRef is true
  lastTap,          \* lastTapRef of every mounted node: id -> time, absent when null
  lastOp,           \* the handler that ran last and the document it started from
  saveTimer,        \* the timeout of the save effect: the document its closure holds
                    \* and the time it is due or, once it has run, whether its
                    \* write succeeded
  storage           \* the item AsyncStorage holds under FLOWCHART_STATE_KEY

docVars == <<nodes, edges, nodeCounter>>
histVars == <<history, historyIndex>>
overlayVars == <<connectingFrom, dragLine, draggingNode>>
refVars == <<isDraggingConnection, lastTap>>
vars == <<nodes, edges, nodeCounter, history, historyIndex, connectingFrom, dragLine,
          draggingNode, currentScale, viewport, pendingLoad, now, responder,
          isDraggingConnection, lastTap, lastOp, saveTimer, storage>>
viewVars == <<currentScale, viewport>>
saveVars == <<saveTimer, storage>>

LiveDoc == Doc(nodes, edges, nodeCounter)

\* JavaScript history[i]
HistoryAt(i) == history[i + 1]

(***************************************************************************)
(* What AsyncStorage may hold when the application starts: nothing, or a   *)
(* document an earlier session saved.                                      *)
(***************************************************************************)
OldNode == [id |-> <<"node", 900>>, x |-> Px(1425), y |-> Px(1475), label |-> <<"Node", 1>>,
            type |-> "rectangle"]

Absent == [kind |-> "absent"]
Stored(obj) == [kind |-> "object", obj |-> obj]

StartupBlobs ==
  { Absent, Stored([nodes |-> <<OldNode>>, edges |-> <<>>, nodeCounter |-> 2]) }

\* defaults for every field unless the object holds all three
FieldOrAllDefaults(obj, f, dflt) ==
  IF DOMAIN obj = {"nodes", "edges", "nodeCounter"} THEN obj[f] ELSE dflt

\* parsedState.f || dflt
FieldOr(obj, f, dflt) == IF f \in DOMAIN obj THEN obj[f] ELSE dflt

NoOp == [name |-> "none", arg |-> None, doc |-> EmptyDoc, idx |-> 0, len |-> 1,
         pushed |-> FALSE, afterRelease |-> FALSE]

Init ==
  /\ nodes = <<>>
  /\ edges = <<>>
  /\ nodeCounter = 1
  /\ history = <<EmptyDoc>>
  /\ historyIndex = 0
  /\ connectingFrom = None
  /\ dragLine = None
  /\ draggingNode = None
  /\ currentScale = One
  /\ viewport = [scale |-> One, savedScale |-> One,
                 translateX |-> initialX, translateY |-> initialY,
                 savedTranslateX |-> initialX, savedTranslateY |-> initialY]
  /\ pendingLoad \in StartupBlobs
  /\ now = StartTime
  /\ responder = None
  /\ isDraggingConnection = {}
  /\ lastTap = NoRefs
  /\ lastOp = NoOp
  /\ saveTimer = Timeout(LiveDoc, StartTime + SaveDelay)
  /\ storage = IF pendingLoad = None THEN Stored(LiveDoc) ELSE pendingLoad

(***************************************************************************)
(* History                                                                 *)
(***************************************************************************)
\* saveToHistory without the eviction of the oldest entry
SaveToHistoryNoEvict(hist, idx, doc) ==
  Append(SubSeq(hist, 1, Min(idx + 1, Len(hist))), doc)

\* saveToHistory without history.slice(0, historyIndex + 1)
SaveToHistoryNoSlice(hist, idx, doc) ==
  IF Len(hist) + 1 > HistoryLimit THEN Tail(Append(hist, doc)) ELSE Append(hist, doc)

\* saveToHistory: the history it stores
SaveToHistory(hist, idx, doc) ==
  LET newHistory == Append(SubSeq(hist, 1, Min(idx + 1, Len(hist))), doc)
  IN IF Len(newHistory) > HistoryLimit THEN Tail(newHistory) ELSE newHistory

canUndo == historyIndex > 0
canRedo == historyIndex < Len(history) - 1

\* The refs of DraggableNode live as long as the component is mounted, that is
\* as long as its key (the node id) stays in the node list.
SetRefs(newNodes, dragging, taps) ==
  /\ isDraggingConnection' = dragging \cap NodeIds(newNodes)
  /\ lastTap' = [id \in (DOMAIN taps) \cap NodeIds(newNodes) |-> taps[id]]

Remount(newNodes) == SetRefs(newNodes, isDraggingConnection, lastTap)

\* the cursor moved one entry on instead of to the end of the stored history
CommitAdvancingCursor(doc) ==
  /\ history' = SaveToHistory(history, historyIndex, doc)
  /\ historyIndex' = historyIndex + 1

\* setHistory(newHistory); setHistoryIndex(newHistory.length - 1)
Commit(doc) ==
  /\ history' = SaveToHistory(history, historyIndex, doc)
  /\ historyIndex' = Len(history') - 1

\* lastOp looks one handler back.  It records the handlers the properties
\* look back at (those that called saveToHistory, handleUndo, Clear Chart and
\* the release of an edge drag): name and argument, the document, cursor and history
\* length the handler started from, whether it called saveToHistory, and
\* whether the handler before it was the release of a node drag.  After any
\* other handler it is NoOp.
Recorded(name, pushed) ==
  pushed \/ name \in {"handleUndo", "connectionRelease", "clearChart", "fitToAllNodes"}

\* The save effect when it keeps the timeout it has already set: no
\* clearTimeout, and no new timeout while one is pending.
SaveEffectKeepingTimer ==
  /\ saveTimer' = IF docVars' # docVars /\ saveTimer.kind # "pending"
                    THEN Timeout(Doc(nodes', edges', nodeCounter'), now + SaveDelay)
                    ELSE saveTimer
  /\ storage' = storage

\* useEffect(..., [nodes, edges, nodeCounter]), run after the render that
\* follows a handler: when the document has changed, the cleanup clears the
\* pending timeout and a new one is set for the new document.  (Setting an
\* equal document anew would only postpone a write of the same document.)
SaveEffect ==
  /\ saveTimer' = IF docVars' # docVars
                    THEN Timeout(Doc(nodes', edges', nodeCounter'), now + SaveDelay)
                    ELSE saveTimer
  /\ storage' = storage

Ran(name, pushed, arg) ==
  /\ lastOp' = IF Recorded(name, pushed)
                 THEN [name |-> name, arg |-> arg, doc |-> LiveDoc, idx |-> historyIndex,
                       len |-> Len(history), pushed |-> pushed,
                       afterRelease |-> lastOp.name = "nodeDragRelease"]
                 ELSE NoOp
  /\ SaveEffect

Idle == responder = None

(***************************************************************************)
(* Document operations of FlowchartCanvas                                  *)
(***************************************************************************)
DefaultX == Half(Px(CANVAS_SIZE)) - Px(75)
DefaultY == Half(Px(CANVAS_SIZE)) - Px(25)

\* addNode without setNodeCounter(nodeCounter + 1)
addNodeKeepingCounter(type) ==
  LET newNode == [id |-> <<"node", now>>, x |-> DefaultX, y |-> DefaultY,
                  label |-> <<"Node", nodeCounter>>, type |-> type]
      newNodes == Append(nodes, newNode)
  IN /\ Idle
     /\ nodes' = newNodes
     /\ Commit(Doc(newNodes, edges, nodeCounter))
     /\ Remount(newNodes)
     /\ UNCHANGED <<edges, nodeCounter, overlayVars, viewVars, pendingLoad, now, responder>>
     /\ Ran("addNode", TRUE, [type |-> type])

\* addNode labelling the node with the increased counter
addNodeLabelledAfter(type) ==
  LET newCounter == nodeCounter + 1
      newNode == [id |-> <<"node", now>>, x |-> DefaultX, y |-> DefaultY,
                  label |-> <<"Node", newCounter>>, type |-> type]
      newNodes == Append(nodes, newNode)
  IN /\ Idle
     /\ nodes' = newNodes
     /\ nodeCounter' = newCounter
     /\ Commit(Doc(newNodes, edges, newCounter))
     /\ Remount(newNodes)
     /\ UNCHANGED <<edges, overlayVars, viewVars, pendingLoad, now, responder>>
     /\ Ran("addNode", TRUE, [type |-> type])

addNode(type) ==
  LET newNode == [id |-> <<"node", now>>, x |-> DefaultX, y |-> DefaultY,
                  label |-> <<"Node", nodeCounter>>, type |-> type]
      newNodes == Append(nodes, newNode)
      newCounter == nodeCounter + 1
  IN /\ Idle
     /\ nodes' = newNodes
     /\ nodeCounter' = newCounter
     /\ Commit(Doc(newNodes, edges, newCounter))
     /\ Remount(newNodes)
     /\ UNCHANGED <<edges, overlayVars, viewVars, pendingLoad, now, responder>>
     /\ Ran("addNode", TRUE, [type |-> type])

\* nodes.map(node => node.id === nodeId ? {...node, label: newLabel} : node)
WithLabel(ns, nodeId, newLabel) ==
  [i \in 1..Len(ns) |-> IF ns[i].id = nodeId THEN [ns[i] EXCEPT !.label = newLabel] ELSE ns[i]]

\* onChangeText of the node's TextInput; a touch on the canvas dismisses the
\* keyboard (onTouchStart, line 1822), so no text arrives during a gesture
handleLabelChange(nodeId, newLabel) ==
  /\ Idle
  /\ nodeId \in NodeIds(nodes)
  /\ nodes' = WithLabel(nodes, nodeId, newLabel)
  /\ UNCHANGED <<edges, nodeCounter, histVars, overlayVars, viewVars, pendingLoad, now,
                 responder, refVars>>
  /\ Ran("handleLabelChange", FALSE, [id |-> nodeId])

\* the Clear Chart menu item
clearChart ==
  /\ Idle
  /\ nodes' = <<>>
  /\ edges' = <<>>
  /\ nodeCounter' = 1
  /\ Remount(<<>>)
  /\ UNCHANGED <<histVars, overlayVars, viewVars, pendingLoad, now, responder>>
  /\ Ran("clearChart", FALSE, None)

\* a restore that leaves out setEdges(state.edges)
RestoreWithoutEdges(state) ==
  /\ nodes' = state.nodes
  /\ edges' = edges
  /\ nodeCounter' = state.nodeCounter
  /\ Remount(state.nodes)

\* setNodes(state.nodes); setEdges(state.edges); setNodeCounter(state.nodeCounter)
Restore(state) ==
  /\ nodes' = state.nodes
  /\ edges' = state.edges
  /\ nodeCounter' = state.nodeCounter
  /\ Remount(state.nodes)

\* an undo that also drops the entries after the new cursor
handleUndoDroppingFuture ==
  /\ Idle
  /\ IF historyIndex > 0 /\ historyIndex - 1 < Len(history)
       THEN /\ Restore(HistoryAt(historyIndex - 1))
            /\ historyIndex' = historyIndex - 1
            /\ history' = SubSeq(history, 1, historyIndex)
       ELSE UNCHANGED <<docVars, history, historyIndex, refVars>>
  /\ UNCHANGED <<overlayVars, viewVars, pendingLoad, now, responder>>
  /\ Ran("handleUndo", FALSE, None)

\* history[newIndex] is undefined when newIndex is past the end; reading
\* state.nodes then throws and the handler sets nothing.
handleUndo ==
  /\ Idle
  /\ IF historyIndex > 0 /\ historyIndex - 1 < Len(history)
       THEN /\ Restore(HistoryAt(historyIndex - 1))
            /\ historyIndex' = historyIndex - 1
       ELSE UNCHANGED <<docVars, historyIndex, refVars>>
  /\ UNCHANGED <<history, overlayVars, viewVars, pendingLoad, now, responder>>
  /\ Ran("handleUndo", FALSE, None)

handleRedo ==
  /\ Idle
  /\ IF historyIndex < Len(history) - 1
       THEN /\ Restore(HistoryAt(historyIndex + 1))
            /\ historyIndex' = historyIndex + 1
       ELSE UNCHANGED <<docVars, historyIndex, refVars>>
  /\ UNCHANGED <<history, overlayVars, viewVars, pendingLoad, now, responder>>
  /\ Ran("handleRedo", FALSE, None)

\* the continuation of loadState after await AsyncStorage.getItem
loadState ==
  /\ pendingLoad # None
  /\ pendingLoad' = None
  /\ IF pendingLoad.kind = "object"
       THEN LET loaded == Doc(FieldOr(pendingLoad.obj, "nodes", <<>>),
                              FieldOr(pendingLoad.obj, "edges", <<>>),
                              FieldOr(pendingLoad.obj, "nodeCounter", 1))
            IN /\ Restore(loaded)
               /\ history' = <<loaded>>
       ELSE UNCHANGED <<docVars, history, refVars>>
  /\ UNCHANGED <<historyIndex, overlayVars, viewVars, now, responder>>
  /\ Ran("loadState", FALSE, None)

\* Date.now() advances
Tick(d) ==
  /\ now' = now + d
  /\ UNCHANGED <<docVars, histVars, overlayVars, viewVars, pendingLoad, responder,
                 refVars, lastOp, saveVars>>

(***************************************************************************)
(* Geometry                                                                *)
(***************************************************************************)
getNodeDimensions(node) ==
  CASE node.type = "diamond" -> [width |-> Px(80), height |-> Px(80)]
    [] node.type = "oval" -> [width |-> Px(130), height |-> Px(70)]
    [] node.type = "hexagon" -> [width |-> Px(140), height |-> Px(80)]
    [] node.type = "storage" -> [width |-> Px(100), height |-> Px(85)]
    [] OTHER -> [width |-> Px(NODE_WIDTH), height |-> Px(NODE_HEIGHT)]

\* pos is the override position when one is given, else the node itself
\* getConnectionPoint with the rectangle's width and height for every kind
getConnectionPointOfRectangle(node, position, pos) ==
  LET dim == [width |-> Px(NODE_WIDTH), height |-> Px(NODE_HEIGHT)]
      centerX == pos.x + Half(dim.width)
      centerY == pos.y + Half(dim.height)
      horizontalInset == IF node.type = "oval" THEN Px(15) ELSE 0
  IN CASE position = "top" -> [x |-> centerX, y |-> pos.y]
       [] position = "bottom" -> [x |-> centerX, y |-> pos.y + dim.height]
       [] position = "left" -> [x |-> pos.x + horizontalInset, y |-> centerY]
       [] position = "right" -> [x |-> pos.x + dim.width - horizontalInset, y |-> centerY]

getConnectionPoint(node, position, pos) ==
  LET dim == getNodeDimensions(node)
      centerX == pos.x + Half(dim.width)
      centerY == pos.y + Half(dim.height)
      horizontalInset == IF node.type = "oval" THEN Px(15) ELSE 0
  IN CASE position = "top" -> [x |-> centerX, y |-> pos.y]
       [] position = "bottom" -> [x |-> centerX, y |-> pos.y + dim.height]
       [] position = "left" -> [x |-> pos.x + horizontalInset, y |-> centerY]
       [] position = "right" -> [x |-> pos.x + dim.width - horizontalInset, y |-> centerY]

(***************************************************************************)
(* Rendering of an edge                                                    *)
(***************************************************************************)
Segments == 20
CurveOffsetLimit == 80

\* Math.sqrt of a squared distance below (2 * 80 px)^2, rounded down to the half pixel
ISqrt(n) == CHOOSE r \in 0..(2 * Px(CurveOffsetLimit)) : r * r <= n /\ n < (r + 1) * (r + 1)

\* Math.min(distance * 0.5, 80), in half pixels
CurveOffset(start, end) ==
  LET sq == (end.x - start.x) * (end.x - start.x) + (end.y - start.y) * (end.y - start.y)
  IN IF sq >= (2 * Px(CurveOffsetLimit)) * (2 * Px(CurveOffsetLimit))
       THEN Px(CurveOffsetLimit)
       ELSE Half(ISqrt(sq))

\* the control point next to the point p of a connection point on side position
ControlPoint(p, position, curveOffset) ==
  CASE position = "top" -> [x |-> p.x, y |-> p.y - curveOffset]
    [] position = "bottom" -> [x |-> p.x, y |-> p.y + curveOffset]
    [] position = "left" -> [x |-> p.x - curveOffset, y |-> p.y]
    [] position = "right" -> [x |-> p.x + curveOffset, y |-> p.y]
    [] OTHER -> p

\* getPoint(k / segments) of the cubic bezier, both coordinates multiplied by segments^3
getPoint(k, start, cp1, cp2, end) ==
  LET t == k
      mt == Segments - k
  IN [x |-> mt * mt * mt * start.x + 3 * mt * mt * t * cp1.x
            + 3 * mt * t * t * cp2.x + t * t * t * end.x,
      y |-> mt * mt * mt * start.y + 3 * mt * mt * t * cp1.y
            + 3 * mt * t * t * cp2.y + t * t * t * end.y]

\* the loop over the segments, one short
CurveSegmentsOneShort(start, end, sourcePosition, targetPosition) ==
  LET curveOffset == CurveOffset(start, end)
      cp1 == ControlPoint(start, sourcePosition, curveOffset)
      cp2 == ControlPoint(end, targetPosition, curveOffset)
  IN [i \in 1..(Segments - 1) |-> [p1 |-> getPoint(i - 1, start, cp1, cp2, end),
                                  p2 |-> getPoint(i, start, cp1, cp2, end)]]

\* for (let i = 0; i < segments; i++): the segment from getPoint(t1) to getPoint(t2)
CurveSegments(start, end, sourcePosition, targetPosition) ==
  LET curveOffset == CurveOffset(start, end)
      cp1 == ControlPoint(start, sourcePosition, curveOffset)
      cp2 == ControlPoint(end, targetPosition, curveOffset)
  IN [i \in 1..Segments |-> [p1 |-> getPoint(i - 1, start, cp1, cp2, end),
                            p2 |-> getPoint(i, start, cp1, cp2, end)]]

(***************************************************************************)
(* Callbacks FlowchartCanvas hands to DraggableNode                        *)
(***************************************************************************)
\* nodes.map(node => node.id === id ? {...node, x, y} : node)
WithPosition(ns, id, x, y) ==
  [i \in 1..Len(ns) |-> IF ns[i].id = id THEN [ns[i] EXCEPT !.x = x, !.y = y] ELSE ns[i]]

moveNode(id, x, y) ==
  /\ nodes' = WithPosition(nodes, id, x, y)
  /\ Commit(Doc(nodes', edges, nodeCounter))

NewEdge(nodeId, position) ==
  [id |-> <<"edge", now>>, sourceId |-> connectingFrom.nodeId, targetId |-> nodeId,
   sourcePosition |-> connectingFrom.position, targetPosition |-> position]

handleConnectionDragStart(nodeId, position) ==
  LET node == FindNode(nodes, nodeId)
      point == getConnectionPoint(node, position, node)
  IN IF node = None
       THEN UNCHANGED <<connectingFrom, dragLine>>
       ELSE /\ connectingFrom' = [nodeId |-> nodeId, position |-> position]
            /\ dragLine' = [startX |-> point.x, startY |-> point.y,
                            endX |-> point.x, endY |-> point.y]

\* handleConnectionDragMove moving the whole line with the pointer
handleConnectionDragMoveShiftingStart(dx, dy) ==
  IF dragLine # None
    THEN dragLine' = [startX |-> dragLine.startX + dx, startY |-> dragLine.startY + dy,
                      endX |-> dragLine.startX + dx, endY |-> dragLine.startY + dy]
    ELSE UNCHANGED dragLine

handleConnectionDragMove(dx, dy) ==
  IF dragLine # None
    THEN dragLine' = [dragLine EXCEPT !.endX = dragLine.startX + dx,
                                      !.endY = dragLine.startY + dy]
    ELSE UNCHANGED dragLine

handleConnectionDragEnd(nodeId, position) ==
  /\ IF connectingFrom # None /\ connectingFrom.nodeId # nodeId
       THEN /\ edges' = Append(edges, NewEdge(nodeId, position))
            /\ Commit(Doc(nodes, edges', nodeCounter))
       ELSE UNCHANGED <<edges, histVars>>
  /\ connectingFrom' = None
  /\ dragLine' = None

cancelConnectionDrag ==
  /\ connectingFrom' = None
  /\ dragLine' = None
  /\ UNCHANGED <<edges, histVars>>

\* sets nodes, edges, nodeCounter, history and historyIndex, or none of them
\* the double tap placing the new node by the source's own height on both sides
handleConnectionPointDoubleTapBySourceHeight(nodeId, position) ==
  LET sourceNode == FindNode(nodes, nodeId)
      height == getNodeDimensions(sourceNode).height
      gap == Px(DoubleTapGap)
      newY == IF position = "top" THEN sourceNode.y - height - gap
                                  ELSE sourceNode.y + height + gap
      newNodeId == <<"ctr", nodeCounter>>
      newNode == [id |-> newNodeId, x |-> sourceNode.x, y |-> newY,
                  label |-> <<"Node", nodeCounter>>, type |-> "rectangle"]
      newEdge == [id |-> <<"e", sourceNode.id, newNodeId>>, sourceId |-> sourceNode.id,
                  targetId |-> newNodeId, sourcePosition |-> position,
                  targetPosition |-> IF position = "top" THEN "bottom" ELSE "top"]
  IN IF sourceNode = None \/ position \notin {"top", "bottom"}
       THEN UNCHANGED <<docVars, histVars>>
       ELSE /\ nodes' = Append(nodes, newNode)
            /\ edges' = Append(edges, newEdge)
            /\ nodeCounter' = nodeCounter + 1
            /\ Commit(Doc(nodes', edges', nodeCounter'))

handleConnectionPointDoubleTap(nodeId, position) ==
  LET sourceNode == FindNode(nodes, nodeId)
      height == getNodeDimensions(sourceNode).height
      gap == Px(DoubleTapGap)
      newY == IF position = "top" THEN sourceNode.y - Px(NODE_HEIGHT) - gap
                                  ELSE sourceNode.y + height + gap
      newNodeId == <<"ctr", nodeCounter>>
      newNode == [id |-> newNodeId, x |-> sourceNode.x, y |-> newY,
                  label |-> <<"Node", nodeCounter>>, type |-> "rectangle"]
      newEdge == [id |-> <<"e", sourceNode.id, newNodeId>>, sourceId |-> sourceNode.id,
                  targetId |-> newNodeId, sourcePosition |-> position,
                  targetPosition |-> IF position = "top" THEN "bottom" ELSE "top"]
  IN IF sourceNode = None \/ position \notin {"top", "bottom"}
       THEN UNCHANGED <<docVars, histVars>>
       ELSE /\ nodes' = Append(nodes, newNode)
            /\ edges' = Append(edges, newEdge)
            /\ nodeCounter' = nodeCounter + 1
            /\ Commit(Doc(nodes', edges', nodeCounter'))

\* tap-to-connect without the connectingFrom.nodeId !== nodeId test
handleConnectionPointTapNoCheck(nodeId, position) ==
  /\ Idle
  /\ nodeId \in NodeIds(nodes)
  /\ IF connectingFrom = None
       THEN /\ connectingFrom' = [nodeId |-> nodeId, position |-> position]
            /\ UNCHANGED <<edges, histVars>>
       ELSE /\ edges' = Append(edges, NewEdge(nodeId, position))
            /\ Commit(Doc(nodes, edges', nodeCounter))
            /\ connectingFrom' = None
  /\ UNCHANGED <<nodes, nodeCounter, dragLine, draggingNode, viewVars, pendingLoad, now,
                 responder, refVars>>
  /\ Ran("handleConnectionPointTap", connectingFrom # None,
         [id |-> nodeId, position |-> position])

\* tap-to-connect
handleConnectionPointTap(nodeId, position) ==
  /\ Idle
  /\ nodeId \in NodeIds(nodes)
  /\ IF connectingFrom = None
       THEN /\ connectingFrom' = [nodeId |-> nodeId, position |-> position]
            /\ UNCHANGED <<edges, histVars>>
       ELSE /\ IF connectingFrom.nodeId # nodeId
                 THEN /\ edges' = Append(edges, NewEdge(nodeId, position))
                      /\ Commit(Doc(nodes, edges', nodeCounter))
                 ELSE UNCHANGED <<edges, histVars>>
            /\ connectingFrom' = None
  /\ UNCHANGED <<nodes, nodeCounter, dragLine, draggingNode, viewVars, pendingLoad, now,
                 responder, refVars>>
  /\ Ran("handleConnectionPointTap", connectingFrom # None /\ connectingFrom.nodeId # nodeId,
         [id |-> nodeId, position |-> position])

(***************************************************************************)
(* Gestures of DraggableNode                                               *)
(***************************************************************************)
Mounted(id) == id \in NodeIds(nodes)

\* onMoveShouldSetPanResponder and onPanResponderGrant of the node body; d is
\* the displacement of the move in pixels
nodeDragStart(id, d) ==
  /\ Idle
  /\ Mounted(id)
  /\ id \notin isDraggingConnection
  /\ Abs(d[1]) > DragThreshold \/ Abs(d[2]) > DragThreshold
  /\ responder' = [kind |-> "node", id |-> id]
  /\ UNCHANGED <<docVars, histVars, overlayVars, viewVars, pendingLoad, now, refVars>>
  /\ Ran("nodeDragStart", FALSE, [id |-> id, d |-> d])

\* nodeRef.current.x + gestureState.dx / canvasScaleRef.current
DraggedTo(node, d) ==
  [x |-> node.x + ScaleDiv(Px(d[1]), currentScale),
   y |-> node.y + ScaleDiv(Px(d[2]), currentScale)]

\* a move handler that commits every intermediate position
nodeDragMoveCommitting(d) ==
  LET node == FindNode(nodes, responder.id)
      to == DraggedTo(node, d)
  IN /\ responder.kind = "node"
     /\ Mounted(responder.id)
     /\ moveNode(node.id, to.x, to.y)
     /\ draggingNode' = [id |-> node.id, x |-> to.x, y |-> to.y]
     /\ UNCHANGED <<edges, nodeCounter, connectingFrom, dragLine, viewVars, pendingLoad,
                    now, responder, refVars>>
     /\ Ran("nodeDragMove", FALSE, [id |-> responder.id, d |-> d])

\* onPanResponderMove of the node body, calling handleNodeDragging
nodeDragMove(d) ==
  LET node == FindNode(nodes, responder.id)
      to == DraggedTo(node, d)
  IN /\ responder.kind = "node"
     /\ Mounted(responder.id)
     /\ draggingNode' = [id |-> node.id, x |-> to.x, y |-> to.y]
     /\ UNCHANGED <<docVars, histVars, connectingFrom, dragLine, viewVars, pendingLoad,
                    now, responder, refVars>>
     /\ Ran("nodeDragMove", FALSE, [id |-> responder.id, d |-> d])

\* onPanResponderRelease of the node body: moveNode, then handleNodeDragEnd
nodeDragRelease(d) ==
  LET node == FindNode(nodes, responder.id)
      to == DraggedTo(node, d)
  IN /\ responder.kind = "node"
     /\ Mounted(responder.id)
     /\ moveNode(node.id, to.x, to.y)
     /\ draggingNode' = None
     /\ responder' = None
     /\ UNCHANGED <<edges, nodeCounter, connectingFrom, dragLine, viewVars, pendingLoad,
                    now, refVars>>
     /\ Ran("nodeDragRelease", TRUE, [id |-> responder.id, d |-> d])

IsDoubleTap(id) == id \in DOMAIN lastTap /\ now - lastTap[id] < DoubleTapWindow

\* onPanResponderGrant of a connection point
connectionGrant(id, position) ==
  /\ Idle
  /\ Mounted(id)
  /\ responder' = [kind |-> "connection", id |-> id, position |-> position, at |-> now,
                    double |-> IsDoubleTap(id)]
  /\ IF IsDoubleTap(id)
       THEN /\ handleConnectionPointDoubleTap(id, position)
            /\ SetRefs(nodes', isDraggingConnection,
                       [k \in (DOMAIN lastTap) \ {id} |-> lastTap[k]])
            /\ UNCHANGED <<connectingFrom, dragLine>>
       ELSE /\ handleConnectionDragStart(id, position)
            /\ SetRefs(nodes, isDraggingConnection \cup {id},
                       [k \in (DOMAIN lastTap) \cup {id} |-> IF k = id THEN now ELSE lastTap[k]])
            /\ UNCHANGED <<docVars, histVars>>
  /\ UNCHANGED <<draggingNode, viewVars, pendingLoad, now>>
  /\ Ran("connectionGrant", IsDoubleTap(id), [id |-> id, position |-> position])

\* onPanResponderMove of a connection point
connectionMove(d) ==
  /\ responder.kind = "connection"
  /\ Mounted(responder.id)
  /\ handleConnectionDragMove(ScaleDiv(Px(d[1]), currentScale), ScaleDiv(Px(d[2]), currentScale))
  /\ UNCHANGED <<docVars, histVars, connectingFrom, draggingNode, viewVars, pendingLoad,
                 now, responder, refVars>>
  /\ Ran("connectionMove", FALSE, [id |-> responder.id, d |-> d])

\* where the release handler places the start of the drag
ReleaseStart(node, position) ==
  [x |-> node.x + (CASE position = "left" -> 0
                     [] position = "right" -> Px(NODE_WIDTH)
                     [] OTHER -> Half(Px(NODE_WIDTH))),
   y |-> node.y + (CASE position = "top" -> 0
                     [] position = "bottom" -> Px(NODE_HEIGHT)
                     [] OTHER -> Half(Px(NODE_HEIGHT)))]

DropPoint(node, position, d) ==
  [x |-> ReleaseStart(node, position).x + ScaleDiv(Px(d[1]), currentScale),
   y |-> ReleaseStart(node, position).y + ScaleDiv(Px(d[2]), currentScale)]

\* the bounds test of the release loop
InBounds(drop, otherNode) ==
  /\ drop.x >= otherNode.x - Px(HitMargin)
  /\ drop.x <= otherNode.x + Px(NODE_WIDTH) + Px(HitMargin)
  /\ drop.y >= otherNode.y - Px(HitMargin)
  /\ drop.y <= otherNode.y + Px(NODE_HEIGHT) + Px(HitMargin)

\* index of the node the release loop stops at, 0 when it finds none
HitIndex(ns, currentId, drop) ==
  LET hits == {i \in 1..Len(ns) : ns[i].id # currentId /\ InBounds(drop, ns[i])}
  IN IF hits = {} THEN 0 ELSE CHOOSE i \in hits : \A j \in hits : i <= j

\* squared distance; the source compares the square roots
Dist2(drop, otherNode, pos) ==
  LET point == ReleaseStart(otherNode, pos)
  IN (drop.x - point.x) * (drop.x - point.x) + (drop.y - point.y) * (drop.y - point.y)

\* positions = ["top", "bottom"]; the first strictly smaller distance wins
ClosestPos(drop, otherNode) ==
  IF Dist2(drop, otherNode, "bottom") < Dist2(drop, otherNode, "top") THEN "bottom" ELSE "top"

\* onPanResponderRelease of a connection point
connectionRelease(d) ==
  LET currentNode == FindNode(nodes, responder.id)
      drop == DropPoint(currentNode, responder.position, d)
      hit == HitIndex(nodes, currentNode.id, drop)
  IN /\ responder.kind = "connection"
     /\ Mounted(responder.id)
     /\ SetRefs(nodes, isDraggingConnection \ {responder.id}, lastTap)
     /\ IF hit # 0
          THEN handleConnectionDragEnd(nodes[hit].id, ClosestPos(drop, nodes[hit]))
          ELSE cancelConnectionDrag
     /\ responder' = None
     /\ UNCHANGED <<nodes, nodeCounter, draggingNode, viewVars, pendingLoad, now>>
     /\ Ran("connectionRelease",
            hit # 0 /\ connectingFrom # None /\ connectingFrom.nodeId # nodes[hit].id,
            [id |-> responder.id, position |-> responder.position, d |-> d,
             from |-> connectingFrom, at |-> responder.at])

\* the touch of a gesture ends after its node left the node list: the
\* component is unmounted and none of its handlers runs
touchEndUnmounted ==
  /\ responder # None
  /\ ~Mounted(responder.id)
  /\ responder' = None
  /\ UNCHANGED <<docVars, histVars, overlayVars, viewVars, pendingLoad, now, refVars>>
  /\ Ran("touchEndUnmounted", FALSE, None)

\* The touch of a gesture is cancelled (the system takes it over): the
\* responder is released through onPanResponderTerminate, for which neither
\* PanResponder of a node defines a handler.
gestureTerminate ==
  /\ responder # None
  /\ Mounted(responder.id)
  /\ responder' = None
  /\ UNCHANGED <<docVars, histVars, overlayVars, viewVars, pendingLoad, now, refVars>>
  /\ Ran("gestureTerminate", FALSE, None)

(***************************************************************************)
(* The general specification                                               *)
(***************************************************************************)
HistRoom == Len(history) < MaxHistLen
EdgeRoom == Len(edges) < MaxEdges
NodeRoom == Len(nodes) < MaxNodes

Next ==
  \/ \E t \in SpecKinds : NodeRoom /\ HistRoom /\ addNode(t)
  \/ clearChart
  \/ handleUndo
  \/ handleRedo
  \/ loadState
  \/ \E d \in TickSteps : now + d <= StartTime + MaxElapsed /\ Tick(d)
  \/ \E id \in NodeIds(nodes), p \in TapPositions :
        HistRoom /\ EdgeRoom /\ handleConnectionPointTap(id, p)
  \/ \E id \in NodeIds(nodes), d \in NodeDragDeltas : HistRoom /\ nodeDragStart(id, d)
  \/ \E d \in NodeDragDeltas : nodeDragRelease(d)
  \/ \E id \in NodeIds(nodes), p \in GesturePositions :
        /\ HistRoom /\ EdgeRoom
        /\ IsDoubleTap(id) => NodeRoom
        /\ connectionGrant(id, p)
  \/ \E d \in ConnDragDeltas : connectionRelease(d)
  \/ touchEndUnmounted

Spec == Init /\ [][Next]_vars

(***************************************************************************)
(* The long specification: one node dragged to the right again and again,  *)
(* with undo and redo, until the history limit is passed                   *)
(***************************************************************************)
LongDelta == <<6, 0>>

InitLong == Init /\ pendingLoad = Absent

NextLong ==
  \/ nodes = <<>> /\ addNode("rectangle")
  \/ \E id \in NodeIds(nodes) :
        /\ FindNode(nodes, id).x + Px(LongDelta[1]) <= Px(MaxLongX)
        /\ nodeDragStart(id, LongDelta)
  \/ nodeDragRelease(LongDelta)
  \/ handleUndo
  \/ handleRedo
  \/ loadState

SpecLong == InitLong /\ [][NextLong]_vars

(***************************************************************************)
(* Zoom controls                                                           *)
(***************************************************************************)
\* zoomIn without Math.min(..., MAX_SCALE)
zoomInUnclamped ==
  LET newScale == FracMul(viewport.scale, ZoomFactor)
  IN /\ Idle
     /\ viewport' = [viewport EXCEPT !.scale = newScale, !.savedScale = newScale]
     /\ currentScale' = newScale
     /\ UNCHANGED <<docVars, histVars, overlayVars, pendingLoad, now, responder, refVars>>
     /\ Ran("zoomIn", FALSE, None)

zoomIn ==
  LET newScale == FracMin(FracMul(viewport.scale, ZoomFactor), MAX_SCALE)
  IN /\ Idle
     /\ viewport' = [viewport EXCEPT !.scale = newScale, !.savedScale = newScale]
     /\ currentScale' = newScale
     /\ UNCHANGED <<docVars, histVars, overlayVars, pendingLoad, now, responder, refVars>>
     /\ Ran("zoomIn", FALSE, None)

zoomOut ==
  LET newScale == FracMax(FracDiv(viewport.scale, ZoomFactor), MIN_SCALE)
  IN /\ Idle
     /\ viewport' = [viewport EXCEPT !.scale = newScale, !.savedScale = newScale]
     /\ currentScale' = newScale
     /\ UNCHANGED <<docVars, histVars, overlayVars, pendingLoad, now, responder, refVars>>
     /\ Ran("zoomOut", FALSE, None)

\* the viewport resetView leaves: scale 1 and the centred pan offset
ResetViewport ==
  [scale |-> One, savedScale |-> One, translateX |-> initialX, translateY |-> initialY,
   savedTranslateX |-> initialX, savedTranslateY |-> initialY]

resetView ==
  /\ Idle
  /\ viewport' = ResetViewport
  /\ currentScale' = One
  /\ UNCHANGED <<docVars, histVars, overlayVars, pendingLoad, now, responder, refVars>>
  /\ Ran("resetView", FALSE, None)

RECURSIVE SeqMin(_), SeqMax(_)
SeqMin(q) == IF Len(q) = 1 THEN q[1] ELSE Min(q[1], SeqMin(Tail(q)))
SeqMax(q) == IF Len(q) = 1 THEN q[1] ELSE -Min(-q[1], -SeqMax(Tail(q)))

\* the bounding box fitToAllNodes computes for a non-empty node list, in half pixels
FitBox(ns) ==
  [minX |-> SeqMin([i \in 1..Len(ns) |-> ns[i].x]),
   minY |-> SeqMin([i \in 1..Len(ns) |-> ns[i].y]),
   maxX |-> SeqMax([i \in 1..Len(ns) |-> ns[i].x + Px(NODE_WIDTH)]),
   maxY |-> SeqMax([i \in 1..Len(ns) |-> ns[i].y + Px(NODE_HEIGHT)])]

\* the viewport fitToAllNodes computes for a non-empty node list
FitViewport(ns) ==
  LET box == FitBox(ns)
      nodesWidth == Frac(box.maxX - box.minX, 2)
      nodesHeight == Frac(box.maxY - box.minY, 2)
      headerHeight == InsetsTop + 60
      bottomPadding == 120
      sidePadding == 20
      availableWidth == SCREEN_WIDTH - sidePadding * 2
      availableHeight == SCREEN_HEIGHT - headerHeight - bottomPadding
      paddingFactor == <<9, 10>>
      scaleX == FracDiv(FracMul(<<availableWidth, 1>>, paddingFactor), nodesWidth)
      scaleY == FracDiv(FracMul(<<availableHeight, 1>>, paddingFactor), nodesHeight)
      newScale == FracMax(FracMin(FracMin(scaleX, scaleY), MAX_SCALE), MIN_SCALE)
      nodesCenterX == FracAdd(Frac(box.minX, 2), FracDiv(nodesWidth, <<2, 1>>))
      nodesCenterY == FracAdd(Frac(box.minY, 2), FracDiv(nodesHeight, <<2, 1>>))
      screenCenterX == Frac(SCREEN_WIDTH, 2)
      screenCenterY == FracAdd(<<headerHeight, 1>>, Frac(availableHeight, 2))
      newTranslateX == FracSub(screenCenterX, FracMul(nodesCenterX, newScale))
      newTranslateY == FracSub(screenCenterY, FracMul(nodesCenterY, newScale))
  IN [scale |-> newScale, savedScale |-> newScale,
      translateX |-> newTranslateX, translateY |-> newTranslateY,
      savedTranslateX |-> newTranslateX, savedTranslateY |-> newTranslateY]

\* fitToAllNodes without the test for an empty node list
fitToAllNodesIgnoringEmpty ==
  /\ Idle
  /\ IF nodes = <<>>
       THEN UNCHANGED viewVars
       ELSE /\ viewport' = FitViewport(nodes)
            /\ currentScale' = viewport'.scale
  /\ UNCHANGED <<docVars, histVars, overlayVars, pendingLoad, now, responder, refVars>>
  /\ Ran("fitToAllNodes", FALSE, [zoomed |-> viewport.scale # One,
                                    panned |-> viewport.savedTranslateX # initialX])

fitToAllNodes ==
  /\ Idle
  /\ IF nodes = <<>>
       THEN /\ viewport' = ResetViewport
            /\ currentScale' = One
       ELSE /\ viewport' = FitViewport(nodes)
            /\ currentScale' = viewport'.scale
  /\ UNCHANGED <<docVars, histVars, overlayVars, pendingLoad, now, responder, refVars>>
  /\ Ran("fitToAllNodes", FALSE, [zoomed |-> viewport.scale # One,
                                    panned |-> viewport.savedTranslateX # initialX])

(***************************************************************************)
(* Panning the canvas                                                      *)
(***************************************************************************)
\* onStartShouldSetPanResponder of the canvas: a touch outside every node
canvasPanGrant ==
  /\ Idle
  /\ responder' = [kind |-> "canvas"]
  /\ UNCHANGED <<docVars, histVars, overlayVars, viewVars, pendingLoad, now, refVars>>
  /\ Ran("canvasPanGrant", FALSE, None)

\* a pan that divides the displacement by the scale, as the node drag does
canvasPanMoveScaled(d) ==
  /\ responder.kind = "canvas"
  /\ viewport' = [viewport EXCEPT
        !.translateX = FracAdd(viewport.savedTranslateX, FracDiv(<<d[1], 1>>, viewport.scale)),
        !.translateY = FracAdd(viewport.savedTranslateY, FracDiv(<<d[2], 1>>, viewport.scale))]
  /\ UNCHANGED <<docVars, histVars, overlayVars, currentScale, pendingLoad, now, responder,
                 refVars>>
  /\ Ran("canvasPanMove", FALSE, [d |-> d])

\* onPanResponderMove of the canvas; d is (gestureState.dx, gestureState.dy)
canvasPanMove(d) ==
  /\ responder.kind = "canvas"
  /\ viewport' = [viewport EXCEPT
        !.translateX = FracAdd(viewport.savedTranslateX, <<d[1], 1>>),
        !.translateY = FracAdd(viewport.savedTranslateY, <<d[2], 1>>)]
  /\ UNCHANGED <<docVars, histVars, overlayVars, currentScale, pendingLoad, now, responder,
                 refVars>>
  /\ Ran("canvasPanMove", FALSE, [d |-> d])

\* onPanResponderRelease of the canvas
canvasPanRelease ==
  /\ responder.kind = "canvas"
  /\ viewport' = [viewport EXCEPT !.savedTranslateX = viewport.translateX,
                                  !.savedTranslateY = viewport.translateY]
  /\ responder' = None
  /\ UNCHANGED <<docVars, histVars, overlayVars, currentScale, pendingLoad, now, refVars>>
  /\ Ran("canvasPanRelease", FALSE, None)

(***************************************************************************)
(* The view specification: zooming to both limits, reset, fit and pan over *)
(* charts of several shapes and extents                                    *)
(***************************************************************************)
ViewKinds == {"rectangle", "storage"}
\* a node drag long enough for the fitted scale to fall below MIN_SCALE
ViewDragDeltas == {<<1100, 0>>}
PanDeltas == {<<30, -20>>}
\* zooming continues while both terms of the scale stay below 6^(5 + MaxZoomSteps)
ScaleTermRoom ==
  /\ currentScale[1] <= FracPow(<<6, 1>>, 5 + MaxZoomSteps)[1]
  /\ currentScale[2] <= FracPow(<<6, 1>>, 5 + MaxZoomSteps)[1]
\* panning starts within one pan of the centred or the fitted offset
PanRoom ==
  \/ viewport.savedTranslateX = initialX
  \/ nodes # <<>> /\ viewport.savedTranslateX = FitViewport(nodes).translateX

NextView ==
  \/ \E t \in ViewKinds : Len(nodes) < MaxNodes /\ Len(history) < MaxHistLen /\ addNode(t)
  \/ \E id \in NodeIds(nodes), d \in ViewDragDeltas :
        /\ currentScale = One
        /\ Len(history) < MaxHistLen + 1
        /\ FindNode(nodes, id).x = DefaultX
        /\ nodeDragStart(id, d)
  \/ \E d \in ViewDragDeltas : nodeDragRelease(d)
  \/ ScaleTermRoom /\ zoomIn
  \/ ScaleTermRoom /\ zoomOut
  \/ resetView
  \/ fitToAllNodes
  \/ PanRoom /\ canvasPanGrant
  \/ \E d \in PanDeltas : canvasPanMove(d)
  \/ canvasPanRelease
  \/ loadState

SpecView == Init /\ [][NextView]_vars

(***************************************************************************)
(* Saving                                                                  *)
(***************************************************************************)
\* a saveState that empties the chart when the write is rejected
saveStateClearingOnFailure(ok) ==
  /\ saveTimer.kind = "pending"
  /\ now >= saveTimer.due
  /\ storage' = IF ok THEN Stored([nodes |-> saveTimer.doc.nodes,
                                   edges |-> saveTimer.doc.edges,
                                   nodeCounter |-> saveTimer.doc.nodeCounter])
                      ELSE storage
  /\ saveTimer' = [kind |-> "ran", ok |-> ok]
  /\ nodes' = IF ok THEN nodes ELSE <<>>
  /\ UNCHANGED <<edges, nodeCounter, histVars, overlayVars, viewVars, pendingLoad, now,
                 responder, refVars, lastOp>>

\* the timeout runs saveState: JSON.stringify({nodes, edges, nodeCounter}) of
\* the closure and AsyncStorage.setItem, which succeeds (ok) or rejects; a
\* rejection is caught and logged
saveState(ok) ==
  /\ saveTimer.kind = "pending"
  /\ now >= saveTimer.due
  /\ storage' = IF ok THEN Stored([nodes |-> saveTimer.doc.nodes,
                                   edges |-> saveTimer.doc.edges,
                                   nodeCounter |-> saveTimer.doc.nodeCounter])
                      ELSE storage
  /\ saveTimer' = [kind |-> "ran", ok |-> ok]
  /\ UNCHANGED <<docVars, histVars, overlayVars, viewVars, pendingLoad, now, responder,
                 refVars, lastOp>>

(***************************************************************************)
(* The save specification: changes of the document that arrive within and  *)
(* beyond the delay of the save, writes that succeed and writes that fail  *)
(***************************************************************************)
SaveTickSteps == {250}
\* the user changes the document during the first 4 * MaxElapsed milliseconds
Changing == now < StartTime + 4 * MaxElapsed

NextSave ==
  \/ Changing /\ Len(nodes) < MaxNodes /\ Len(history) < MaxHistLen /\ addNode("rectangle")
  \/ Changing /\ handleUndo
  \/ Changing /\ clearChart
  \/ loadState
  \/ \E d \in SaveTickSteps :
        /\ Changing \/ (saveTimer.kind = "pending" /\ now < saveTimer.due)
        /\ Tick(d)
  \/ \E ok \in BOOLEAN : saveState(ok)

SpecSave == Init /\ [][NextSave]_vars

\* time passes, the read at startup resolves and a due timeout runs
SpecSaveFair ==
  /\ SpecSave
  /\ WF_vars(\E d \in SaveTickSteps :
               (saveTimer.kind = "pending" /\ now < saveTimer.due) /\ Tick(d))
  /\ WF_vars(loadState)
  /\ WF_vars(\E ok \in BOOLEAN : saveState(ok))

(***************************************************************************)
(* The load specification: every outcome of the read at startup, racing    *)
(* with the first operations of the user                                   *)
(***************************************************************************)
StoredChart ==
  [nodes |-> <<OldNode,
               [id |-> <<"node", 910>>, x |-> Px(1425), y |-> Px(1625),
                label |-> <<"Node", 2>>, type |-> "diamond"]>>,
   edges |-> <<[id |-> <<"edge", 950>>, sourceId |-> <<"node", 900>>,
                targetId |-> <<"node", 910>>, sourcePosition |-> "bottom",
                targetPosition |-> "top"]>>,
   nodeCounter |-> 3]

\* getItem resolves to null, rejects, resolves to text JSON.parse throws on, or
\* resolves to an object holding any subset of the three fields
LoadBlobs ==
  {Absent, [kind |-> "readError"], [kind |-> "unparsable"]}
    \cup {Stored([f \in fields |-> StoredChart[f]]) :
            fields \in SUBSET {"nodes", "edges", "nodeCounter"}}

InitLoad ==
  /\ nodes = <<>>
  /\ edges = <<>>
  /\ nodeCounter = 1
  /\ history = <<EmptyDoc>>
  /\ historyIndex = 0
  /\ connectingFrom = None
  /\ dragLine = None
  /\ draggingNode = None
  /\ currentScale = One
  /\ viewport = [scale |-> One, savedScale |-> One,
                 translateX |-> initialX, translateY |-> initialY,
                 savedTranslateX |-> initialX, savedTranslateY |-> initialY]
  /\ pendingLoad \in LoadBlobs
  /\ now = StartTime
  /\ responder = None
  /\ isDraggingConnection = {}
  /\ lastTap = NoRefs
  /\ lastOp = NoOp
  /\ saveTimer = Timeout(LiveDoc, StartTime + SaveDelay)
  /\ storage = IF pendingLoad = None THEN Stored(LiveDoc) ELSE pendingLoad

\* the kinds of node added before and after the load
LoadKinds == {"rectangle", "oval"}

NextLoad ==
  \/ \E t \in LoadKinds :
        Len(nodes) < MaxNodes + 1 /\ Len(history) < MaxHistLen /\ addNode(t)
  \/ \E d \in TickSteps : now + d <= StartTime + MaxElapsed /\ Tick(d)
  \/ loadState
  \/ handleUndo
  \/ handleRedo
  \/ clearChart

SpecLoad == InitLoad /\ [][NextLoad]_vars

(***************************************************************************)
(* The label specification: label edits between additions, undo and redo   *)
(***************************************************************************)
TypedLabels == {<<"Start", 0>>, <<"Stop", 0>>}

NextLabel ==
  \/ Len(nodes) < MaxNodes /\ Len(history) < MaxHistLen /\ addNode("rectangle")
  \/ \E d \in TickSteps : now + d <= StartTime + MaxElapsed /\ Tick(d)
  \/ \E id \in NodeIds(nodes), l \in TypedLabels : handleLabelChange(id, l)
  \/ handleUndo
  \/ handleRedo
  \/ loadState

SpecLabel == Init /\ [][NextLabel]_vars

(***************************************************************************)
(* The render specification: a loaded chart of two nodes of any two kinds  *)
(* joined by an edge between any two connection points, and node drags     *)
(***************************************************************************)
\* the override handed to every node while one is dragged
OverrideOfAnyNode(node) ==
  IF draggingNode # None
    THEN [x |-> draggingNode.x, y |-> draggingNode.y]
    ELSE [x |-> node.x, y |-> node.y]

\* draggingNode?.id === node.id ? {x: draggingNode.x, y: draggingNode.y} : undefined
OverrideOf(node) ==
  IF draggingNode # None /\ draggingNode.id = node.id
    THEN [x |-> draggingNode.x, y |-> draggingNode.y]
    ELSE [x |-> node.x, y |-> node.y]

\* edges.map(...) of the render: the end points and the segments drawn for an
\* edge, None when one of its nodes is missing
RenderEdge(edge) ==
  LET sourceNode == FindNode(nodes, edge.sourceId)
      targetNode == FindNode(nodes, edge.targetId)
  IN IF sourceNode = None \/ targetNode = None
       THEN None
       ELSE LET start == getConnectionPoint(sourceNode, edge.sourcePosition,
                                            OverrideOf(sourceNode))
                end == getConnectionPoint(targetNode, edge.targetPosition,
                                          OverrideOf(targetNode))
            IN [start |-> start, end |-> end,
                segments |-> CurveSegments(start, end, edge.sourcePosition,
                                           edge.targetPosition)]

\* where the second node of the loaded chart lies relative to the first, in pixels
RenderOffsets == {<<200, 120>>, <<0, 60>>}
RenderDragDeltas == {<<40, 30>>}

LoadedChart(k1, k2, off, p1, p2) ==
  Doc(<<[id |-> <<"node", 800>>, x |-> DefaultX, y |-> DefaultY, label |-> <<"Node", 1>>,
         type |-> k1],
        [id |-> <<"node", 900>>, x |-> DefaultX + Px(off[1]), y |-> DefaultY + Px(off[2]),
         label |-> <<"Node", 2>>, type |-> k2]>>,
      <<[id |-> <<"edge", 950>>, sourceId |-> <<"node", 800>>, targetId |-> <<"node", 900>>,
         sourcePosition |-> p1, targetPosition |-> p2]>>,
      3)

\* the state after the stored chart has been loaded
InitRender ==
  /\ \E k1 \in NodeTypes, k2 \in NodeTypes, off \in RenderOffsets, p1 \in Positions,
        p2 \in Positions :
        /\ nodes = LoadedChart(k1, k2, off, p1, p2).nodes
        /\ edges = LoadedChart(k1, k2, off, p1, p2).edges
  /\ nodeCounter = 3
  /\ history = <<LiveDoc>>
  /\ historyIndex = 0
  /\ connectingFrom = None
  /\ dragLine = None
  /\ draggingNode = None
  /\ currentScale = One
  /\ viewport = [scale |-> One, savedScale |-> One,
                 translateX |-> initialX, translateY |-> initialY,
                 savedTranslateX |-> initialX, savedTranslateY |-> initialY]
  /\ pendingLoad = None
  /\ now = StartTime
  /\ responder = None
  /\ isDraggingConnection = {}
  /\ lastTap = NoRefs
  /\ lastOp = NoOp
  /\ saveTimer = Timeout(LiveDoc, StartTime + SaveDelay)
  /\ storage = IF pendingLoad = None THEN Stored(LiveDoc) ELSE pendingLoad

NextRender ==
  \/ \E id \in NodeIds(nodes), d \in RenderDragDeltas :
        Len(history) < MaxHistLen - 1 /\ nodeDragStart(id, d)
  \/ \E d \in RenderDragDeltas : nodeDragMove(d)
  \/ \E d \in RenderDragDeltas : nodeDragRelease(d)
  \/ handleUndo

SpecRender == InitRender /\ [][NextRender]_vars

(***************************************************************************)
(* The drag specification: node drags with their intermediate moves, at    *)
(* several zoom levels                                                     *)
(***************************************************************************)
\* the zoom levels the drag specification visits: ZoomFactor^k, |k| <= MaxZoomSteps
ZoomRoomIn == ~FracLeq(FracPow(ZoomFactor, MaxZoomSteps), currentScale)
ZoomRoomOut == ~FracLeq(currentScale, FracDiv(One, FracPow(ZoomFactor, MaxZoomSteps)))

\* 450 px divides exactly by every zoom level the specification visits
DragDeltas == {<<0, 0>>, <<450, 0>>}

NextDrag ==
  \/ \E t \in SpecKinds : NodeRoom /\ HistRoom /\ addNode(t)
  \/ ZoomRoomIn /\ zoomIn
  \/ ZoomRoomOut /\ zoomOut
  \/ clearChart
  \/ \E d \in TickSteps : now + d <= StartTime + MaxElapsed /\ Tick(d)
  \/ \E id \in NodeIds(nodes), d \in DragDeltas : HistRoom /\ nodeDragStart(id, d)
  \/ \E d \in DragDeltas : nodeDragMove(d)
  \/ \E d \in DragDeltas : nodeDragRelease(d)
  \/ handleUndo
  \/ handleRedo
  \/ loadState
  \/ touchEndUnmounted

SpecDrag == Init /\ [][NextDrag]_vars

(***************************************************************************)
(* The connect specification: a loaded chart of three nodes, the second    *)
(* and third overlapping, and edge drags from the top and bottom           *)
(* connection points at several zoom levels                                *)
(***************************************************************************)
ConnectKinds == {"rectangle", "diamond", "storage"}

\* displacement of the pointer between pointer-down and pointer-up, in pixels
ConnectDeltas == {<<0, 0>>, <<0, 130>>, <<0, 180>>, <<90, 150>>}

ConnectChart(k1, k2) ==
  Doc(<<[id |-> <<"node", 800>>, x |-> DefaultX, y |-> DefaultY, label |-> <<"Node", 1>>,
         type |-> k1],
        [id |-> <<"node", 900>>, x |-> DefaultX, y |-> DefaultY + Px(150),
         label |-> <<"Node", 2>>, type |-> k2],
        [id |-> <<"node", 950>>, x |-> DefaultX + Px(30), y |-> DefaultY + Px(160),
         label |-> <<"Node", 3>>, type |-> "rectangle"]>>,
      <<>>,
      4)

\* the state after the stored document doc has been loaded
Loaded(doc) ==
  /\ nodes = doc.nodes
  /\ edges = doc.edges
  /\ nodeCounter = doc.nodeCounter
  /\ history = <<doc>>
  /\ historyIndex = 0
  /\ connectingFrom = None
  /\ dragLine = None
  /\ draggingNode = None
  /\ currentScale = One
  /\ viewport = [scale |-> One, savedScale |-> One,
                 translateX |-> initialX, translateY |-> initialY,
                 savedTranslateX |-> initialX, savedTranslateY |-> initialY]
  /\ pendingLoad = None
  /\ now = StartTime
  /\ responder = None
  /\ isDraggingConnection = {}
  /\ lastTap = NoRefs
  /\ lastOp = NoOp
  /\ saveTimer = Timeout(doc, StartTime + SaveDelay)
  /\ storage = Stored(doc)

InitConnect == \E k1 \in ConnectKinds, k2 \in ConnectKinds : Loaded(ConnectChart(k1, k2))

NextConnect ==
  \/ ZoomRoomIn /\ zoomIn
  \/ \E id \in NodeIds(nodes), p \in GesturePositions :
        /\ Len(edges) < MaxEdges - 1
        /\ ~IsDoubleTap(id)
        /\ connectionGrant(id, p)
  \/ \E d \in ConnectDeltas : connectionMove(d)
  \/ \E d \in ConnectDeltas : connectionRelease(d)
  \/ gestureTerminate
  \/ handleUndo

SpecConnect == InitConnect /\ [][NextConnect]_vars

(***************************************************************************)
(* The live specification: a loaded chart of three nodes in a chain of two *)
(* edges, and node drags with their moves at several zoom levels           *)
(***************************************************************************)
LiveKinds == {"rectangle", "oval", "storage"}
LiveDragDeltas == {<<30, 0>>, <<-60, 90>>}

LiveChart(k) ==
  Doc(<<[id |-> <<"node", 800>>, x |-> DefaultX, y |-> DefaultY, label |-> <<"Node", 1>>,
         type |-> k],
        [id |-> <<"node", 900>>, x |-> DefaultX, y |-> DefaultY + Px(150),
         label |-> <<"Node", 2>>, type |-> "rectangle"],
        [id |-> <<"node", 950>>, x |-> DefaultX + Px(200), y |-> DefaultY + Px(300),
         label |-> <<"Node", 3>>, type |-> k]>>,
      <<[id |-> <<"edge", 960>>, sourceId |-> <<"node", 800>>, targetId |-> <<"node", 900>>,
         sourcePosition |-> "bottom", targetPosition |-> "top"],
        [id |-> <<"edge", 970>>, sourceId |-> <<"node", 900>>, targetId |-> <<"node", 950>>,
         sourcePosition |-> "right", targetPosition |-> "left"]>>,
      4)

InitLive == \E k \in LiveKinds : Loaded(LiveChart(k))

NextLive ==
  \/ ZoomRoomIn /\ zoomIn
  \/ ZoomRoomOut /\ zoomOut
  \/ \E id \in NodeIds(nodes), d \in LiveDragDeltas :
        Len(history) < MaxHistLen - 1 /\ nodeDragStart(id, d)
  \/ \E d \in LiveDragDeltas : nodeDragMove(d)
  \/ \E d \in LiveDragDeltas : nodeDragRelease(d)

SpecLive == InitLive /\ [][NextLive]_vars

(***************************************************************************)
(* Properties                                                              *)
(***************************************************************************)
\* the step is a run of the recorded handler called name
Did(name) == lastOp'.name = name /\ now' = now
\* the step is a run of a handler that called saveToHistory
PushStep == lastOp'.pushed /\ now' = now
\* the entries up to and including the cursor
Kept == SubSeq(history, 1, Min(historyIndex + 1, Len(history)))
PositionOf(ns, id) == [x |-> FindNode(ns, id).x, y |-> FindNode(ns, id).y]

\* C1: after any sequence of committed operations, undo and redo the history
\* never holds more than 50 entries.
C1_HistoryBounded == Len(history) <= HistoryLimit

\* a push that found the history full, with the cursor on its last entry
C1_Witness ==
  /\ lastOp.pushed
  /\ lastOp.len = HistoryLimit
  /\ lastOp.idx = HistoryLimit - 1
  /\ Len(history) = HistoryLimit

\* C2: in every reachable state the history cursor is a valid index,
\* 0 <= historyIndex < history.length, also when the startup load completes
\* after the user has committed operations.
C2_CursorValid == historyIndex >= 0 /\ historyIndex < Len(history)

\* C3: undo() immediately after a committed step makes the live document equal
\* to the document as it was immediately before that step.
C3_UndoRestoresPrior ==
  [][(lastOp.pushed /\ handleUndo) => LiveDoc' = lastOp.doc]_vars

\* C4: redo() immediately after a successful undo() restores the live document
\* and the cursor to what they were before that undo().
C4_RedoRestores ==
  [][(lastOp.name = "handleUndo" /\ historyIndex = lastOp.idx - 1 /\ handleRedo)
       => (LiveDoc' = lastOp.doc /\ historyIndex' = lastOp.idx)]_vars

\* C5: undo() with the cursor at 0 and redo() with the cursor at the last entry
\* change nothing; undo() and redo() never change the history sequence, only
\* the cursor and the live document; canUndo holds exactly when the cursor is
\* > 0 and canRedo exactly when it is < history.length - 1.
C5_UndoRedoFrame ==
  [][/\ handleUndo =>
          /\ history' = history
          /\ UNCHANGED <<overlayVars, viewVars>>
          /\ ~canUndo => UNCHANGED <<docVars, historyIndex>>
     /\ handleRedo =>
          /\ history' = history
          /\ UNCHANGED <<overlayVars, viewVars>>
          /\ ~canRedo => UNCHANGED <<docVars, historyIndex>>
     /\ canUndo <=> historyIndex > 0
     /\ canRedo <=> historyIndex < Len(history) - 1]_vars

\* undo() ran with the cursor at 0 while entries to redo were present
C5_Witness == lastOp.name = "handleUndo" /\ lastOp.idx = 0 /\ lastOp.len > 1

\* C6: a push while the cursor is not at the last entry discards every entry
\* after the cursor: the new entry is the last entry, the cursor points at it
\* and there is nothing to redo.
C6_PushDiscardsFuture ==
  [][PushStep =>
       /\ history' \in {Append(Kept, LiveDoc'), Tail(Append(Kept, LiveDoc'))}
       /\ Len(history') <= Len(Kept) + 1
       /\ historyIndex' = Len(history') - 1
       /\ ~(historyIndex' < Len(history') - 1)]_vars

\* a push that started from a cursor before the last entry
C6_Witness == lastOp.pushed /\ lastOp.idx < lastOp.len - 1

\* C7: a node drag creates exactly one history entry, on pointer-up, whatever
\* the number of intermediate moves; the committed document then holds the
\* final position, and one undo() restores the position before the drag.
C7_DragCommitsOnce ==
  [][/\ (\E id \in NodeIds(nodes), d \in DragDeltas : nodeDragStart(id, d))
          => UNCHANGED <<docVars, histVars>>
     /\ (\E d \in DragDeltas : nodeDragMove(d)) => UNCHANGED <<docVars, histVars>>
     /\ Did("nodeDragRelease") =>
          /\ history' \in {Append(Kept, LiveDoc'), Tail(Append(Kept, LiveDoc'))}
          /\ historyIndex' = Len(history') - 1
          /\ PositionOf(nodes', responder.id) =
               [x |-> PositionOf(nodes, responder.id).x
                        + ScaleDiv(Px(lastOp'.arg.d[1]), currentScale),
                y |-> PositionOf(nodes, responder.id).y
                        + ScaleDiv(Px(lastOp'.arg.d[2]), currentScale)]
     /\ (lastOp.name = "nodeDragRelease" /\ handleUndo) =>
          PositionOf(nodes', lastOp.arg.id) = PositionOf(lastOp.doc.nodes, lastOp.arg.id)]_vars

\* a zoomed drag with an intermediate move was released away from where it
\* started, and then undone
C7_Witness ==
  /\ lastOp.name = "handleUndo"
  /\ lastOp.afterRelease
  /\ historyIndex = lastOp.idx - 1
  /\ currentScale # One
  /\ \E i \in 1..Len(nodes) : \E j \in 1..Len(lastOp.doc.nodes) :
        /\ nodes[i].id = lastOp.doc.nodes[j].id
        /\ nodes[i].x # lastOp.doc.nodes[j].x

\* C8: a node drag that ends with zero net displacement commits nothing: the
\* document is unchanged and no history entry is pushed.
C8_ZeroDragSkipped ==
  [][(Did("nodeDragRelease") /\ lastOp'.arg.d = <<0, 0>>) => UNCHANGED <<docVars, histVars>>]_vars

\* C9: no document holds an edge whose sourceId equals its targetId; an attempt
\* to connect a node to itself, by tap-connect or by an edge drag dropped on
\* the source node, leaves the edge list and the history unchanged.
C9_NoSelfLoops ==
  /\ [](\A i \in 1..Len(edges) : edges[i].sourceId # edges[i].targetId)
  /\ [][/\ (\E id \in NodeIds(nodes), p \in Positions :
              /\ connectingFrom # None
              /\ connectingFrom.nodeId = id
              /\ handleConnectionPointTap(id, p))
            => UNCHANGED <<edges, histVars>>
        /\ (Did("connectionRelease")
              /\ HitIndex(nodes, responder.id,
                          DropPoint(FindNode(nodes, responder.id), responder.position,
                                    lastOp'.arg.d)) = 0)
            => UNCHANGED <<edges, histVars>>]_vars

\* an edge drag that started on a node was released over that same node, with
\* another node present, and was rejected
C9_Witness ==
  /\ lastOp.name = "connectionRelease"
  /\ ~lastOp.pushed
  /\ lastOp.arg.from # None
  /\ lastOp.arg.from.nodeId = lastOp.arg.id
  /\ Len(nodes) > 1
  /\ InBounds(DropPoint(FindNode(nodes, lastOp.arg.id), lastOp.arg.position, lastOp.arg.d),
              FindNode(nodes, lastOp.arg.id))
  /\ edges = lastOp.doc.edges
  /\ connectingFrom = None

WithoutNode(ns, id) == SelectSeq(ns, LAMBDA n : n.id # id)
WithoutEdgesOf(es, id) == SelectSeq(es, LAMBDA e : e.sourceId # id /\ e.targetId # id)

deleteNode(id) ==
  /\ Idle
  /\ id \in NodeIds(nodes)
  /\ nodes' = WithoutNode(nodes, id)
  /\ edges' = WithoutEdgesOf(edges, id)
  /\ Commit(Doc(nodes', edges', nodeCounter))
  /\ Remount(nodes')
  /\ UNCHANGED <<nodeCounter, overlayVars, viewVars, pendingLoad, now, responder>>
  /\ Ran("deleteNode", TRUE, [id |-> id])

\* the onConnectionPointDoubleTap callback, called with any node id and position
onConnectionPointDoubleTap(nodeId, position) ==
  /\ Idle
  /\ handleConnectionPointDoubleTap(nodeId, position)
  /\ Remount(nodes')
  /\ UNCHANGED <<overlayVars, viewVars, pendingLoad, now, responder>>
  /\ Ran("onConnectionPointDoubleTap",
         FindNode(nodes, nodeId) # None /\ position \in {"top", "bottom"},
         [id |-> nodeId, position |-> position])

(***************************************************************************)
(* The delete specification: one added node, nodes and edges grown from    *)
(* it by double taps, and deletions                                        *)
(***************************************************************************)
DeleteNodeRoom == Len(nodes) < MaxNodes + 1
DeleteHistRoom == Len(history) < MaxHistLen + 2

NextDelete ==
  \/ nodes = <<>> /\ DeleteHistRoom /\ addNode("rectangle")
  \/ \E id \in NodeIds(nodes), p \in GesturePositions :
        DeleteNodeRoom /\ DeleteHistRoom /\ onConnectionPointDoubleTap(id, p)
  \/ \E id \in NodeIds(nodes) : DeleteHistRoom /\ deleteNode(id)
  \/ handleUndo
  \/ handleRedo
  \/ clearChart
  \/ loadState

SpecDelete == Init /\ [][NextDelete]_vars

NodeIdsOf(ns) == [i \in 1..Len(ns) |-> ns[i].id]
EdgesOf(es, id) == {i \in 1..Len(es) : es[i].sourceId = id \/ es[i].targetId = id}

(***************************************************************************)
(* The gesture specification: edge drags and node drags with their moves,  *)
(* double taps at several intervals, and cancelled touches                 *)
(***************************************************************************)
GestureHistRoom == Len(history) < MaxHistLen + 1
GestureDeltas == {<<0, 0>>, <<0, 100>>}
NodeGestureDeltas == {<<6, 0>>}

NextGesture ==
  \/ nodes = <<>> /\ addNode("rectangle")
  \/ \E d \in TickSteps : now + d <= StartTime + 3 * MaxElapsed /\ Tick(d)
  \/ \E id \in NodeIds(nodes), p \in GesturePositions :
        /\ GestureHistRoom
        /\ IsDoubleTap(id) => NodeRoom
        /\ connectionGrant(id, p)
  \/ \E d \in GestureDeltas : connectionMove(d)
  \/ \E d \in GestureDeltas : connectionRelease(d)
  \/ \E id \in NodeIds(nodes), d \in NodeGestureDeltas : GestureHistRoom /\ nodeDragStart(id, d)
  \/ \E d \in NodeGestureDeltas : nodeDragMove(d)
  \/ \E d \in NodeGestureDeltas : nodeDragRelease(d)
  \/ gestureTerminate
  \/ loadState
  \/ touchEndUnmounted

SpecGesture == Init /\ [][NextGesture]_vars

(***************************************************************************)
(* The double-tap specification: nodes of every shape, and the double tap  *)
(* handler called for every connection point of present and absent nodes   *)
(***************************************************************************)
DoubleTapKinds == {"rectangle", "diamond", "storage"}
AbsentNodeId == <<"node", 0>>
DoubleTapNodeRoom == Len(nodes) < MaxNodes + 1
DoubleTapHistRoom == Len(history) < MaxHistLen + 1

NextDoubleTap ==
  \/ \E t \in DoubleTapKinds : nodes = <<>> /\ DoubleTapHistRoom /\ addNode(t)
  \/ \E id \in NodeIds(nodes) \cup {AbsentNodeId}, p \in Positions :
        DoubleTapNodeRoom /\ DoubleTapHistRoom /\ onConnectionPointDoubleTap(id, p)
  \/ handleUndo
  \/ handleRedo
  \/ clearChart

SpecDoubleTap == Init /\ [][NextDoubleTap]_vars

Opposite(position) == IF position = "top" THEN "bottom" ELSE "top"

\* the step is a pointer-down that was taken as a double tap
DoubleActivated == lastOp'.name = "connectionGrant" /\ now' = now

\* C11: in every reachable state the ids of the nodes of the live node list are
\* pairwise distinct, also after two addNode calls at the same clock value.
C11_NodeIdsUnique ==
  \A i, j \in 1..Len(nodes) : i # j => nodes[i].id # nodes[j].id

\* C12: nodeCounter never decreases, and a step that creates a node labels it
\* with the current counter and then moves the counter past it, so that no
\* counter value labels two nodes.
C12_CounterMonotone ==
  [][/\ nodeCounter' >= nodeCounter
     /\ (PushStep /\ Len(nodes') = Len(nodes) + 1) =>
          /\ nodes'[Len(nodes')].label = <<"Node", nodeCounter>>
          /\ nodeCounter' > nodeCounter]_vars

\* C12 as amended: nodeCounter decreases only in Clear Chart, undo, redo and
\* the startup load, which set it to 1 or to the counter of the document they
\* restore; a step that creates a node labels it with the current counter and
\* increases the counter by exactly one.
C12_CounterAmended ==
  [][/\ (nodeCounter' < nodeCounter) => (clearChart \/ handleUndo \/ handleRedo \/ loadState)
     /\ clearChart => nodeCounter' = 1
     /\ (PushStep /\ Len(nodes') = Len(nodes) + 1) =>
          /\ nodes'[Len(nodes')].label = <<"Node", nodeCounter>>
          /\ nodeCounter' = nodeCounter + 1]_vars

\* an undo took the counter back to a value that had labelled a node
C12_Witness ==
  /\ lastOp.name = "handleUndo"
  /\ nodeCounter < lastOp.doc.nodeCounter
  /\ \E i \in 1..Len(lastOp.doc.nodes) : lastOp.doc.nodes[i].label = <<"Node", nodeCounter>>

\* C13: Clear Chart empties nodes and edges, sets nodeCounter to 1 and commits
\* exactly one history entry holding the empty document; one undo() after it
\* restores the chart as it was just before the clear.
C13_ClearCommits ==
  [][/\ clearChart =>
          /\ LiveDoc' = EmptyDoc
          /\ history' \in {Append(Kept, EmptyDoc), Tail(Append(Kept, EmptyDoc))}
          /\ historyIndex' = Len(history') - 1
     /\ (lastOp.name = "clearChart" /\ handleUndo) => LiveDoc' = lastOp.doc]_vars

\* C14: a handler that changes nodes, edges or nodeCounter pushes the new
\* document in the same step (or is undo, redo or the startup load), and
\* after every push, undo and redo the live document is the history entry at
\* the cursor.
C14_DocumentAtCursor ==
  [][/\ (docVars' # docVars /\ now' = now) =>
          (PushStep \/ handleUndo \/ handleRedo \/ loadState)
     /\ (PushStep \/ handleUndo \/ handleRedo) =>
          /\ historyIndex' >= 0 /\ historyIndex' < Len(history')
          /\ LiveDoc' = history'[historyIndex' + 1]]_vars

C16_TerminateClears ==
  [][gestureTerminate =>
       /\ draggingNode' = None
       /\ dragLine' = None
       /\ connectingFrom' = None
       /\ responder.id \notin isDraggingConnection']_vars

\* C17: a node-drag preview is never present together with a connecting source
\* or a rubber-band line, and a node drag never starts on a node whose
\* connection drag is in progress.
C17_OneGesture ==
  /\ [](~(draggingNode # None /\ (connectingFrom # None \/ dragLine # None)))
  /\ [][\A id \in NodeIds(nodes), d \in NodeGestureDeltas :
          nodeDragStart(id, d) =>
            ~(responder # None /\ responder.kind = "connection" /\ responder.id = id)]_vars

\* C18: a pointer-down on a connection point that follows the gesture of the
\* previous pointer-down on the same node is taken as a double tap exactly
\* when both are on the same connection point and at most 300 ms apart.
C18_DoubleTapTiming ==
  [][\A id \in NodeIds(nodes), p \in GesturePositions :
        (lastOp.name = "connectionRelease" /\ lastOp.arg.id = id /\ connectionGrant(id, p)) =>
          (DoubleActivated <=>
             (lastOp.arg.position = p /\ now - lastOp.arg.at <= DoubleTapWindow))]_vars

\* C19: a pointer-down taken as a double tap leaves connectingFrom and
\* dragLine null, and the moves and the release that follow it change neither
\* the document nor the history.
C19_DoubleTapPriority ==
  [][/\ DoubleActivated => (connectingFrom' = None /\ dragLine' = None)
     /\ (/\ responder # None /\ responder.kind = "connection" /\ responder.double
         /\ \E d \in GestureDeltas : connectionMove(d) \/ connectionRelease(d)) =>
          /\ UNCHANGED <<docVars, histVars>>
          /\ connectingFrom' = None
          /\ dragLine' = None]_vars

\* C20: a double tap on the top or bottom connection point of a present node
\* appends one rectangle node, not yet in the chart, at the source's x with a
\* gap of exactly 100 between the two bounding boxes on that side, appends one
\* edge from the source's tapped connection point to the opposite connection
\* point of the new node, raises nodeCounter by one and pushes one history
\* entry; on a left or right connection point, or for a node id that is not
\* in the chart, it changes neither the document nor the history.
C20_DoubleTapAddsNode ==
  [][\A id \in NodeIds(nodes) \cup {AbsentNodeId}, p \in Positions :
        onConnectionPointDoubleTap(id, p) =>
          IF id \in NodeIds(nodes) /\ p \in {"top", "bottom"}
            THEN LET src == FindNode(nodes, id)
                     new == nodes'[Len(nodes')]
                     edge == edges'[Len(edges')]
                 IN /\ Len(nodes') = Len(nodes) + 1
                    /\ SubSeq(nodes', 1, Len(nodes)) = nodes
                    /\ new.type = "rectangle"
                    /\ new.id \notin NodeIds(nodes)
                    /\ new.x = src.x
                    /\ p = "top" =>
                         src.y - (new.y + getNodeDimensions(new).height) = Px(100)
                    /\ p = "bottom" =>
                         new.y - (src.y + getNodeDimensions(src).height) = Px(100)
                    /\ Len(edges') = Len(edges) + 1
                    /\ SubSeq(edges', 1, Len(edges)) = edges
                    /\ edge.sourceId = id
                    /\ edge.targetId = new.id
                    /\ edge.sourcePosition = p
                    /\ edge.targetPosition = Opposite(p)
                    /\ nodeCounter' = nodeCounter + 1
                    /\ history' \in {Append(Kept, LiveDoc'), Tail(Append(Kept, LiveDoc'))}
                    /\ historyIndex' = Len(history') - 1
            ELSE UNCHANGED <<docVars, histVars>>]_vars

\* a double tap on the top connection point of a diamond has added a node and an edge
C20_Witness ==
  /\ lastOp.name = "onConnectionPointDoubleTap"
  /\ lastOp.arg.position = "top"
  /\ FindNode(nodes, lastOp.arg.id) # None
  /\ FindNode(nodes, lastOp.arg.id).type = "diamond"
  /\ Len(nodes) >= 2
  /\ edges # <<>>
  /\ edges[Len(edges)].sourceId = lastOp.arg.id
  /\ edges[Len(edges)].targetId = nodes[Len(nodes)].id

\* C21: after any sequence of zoomIn, zoomOut, resetView and fitToAllNodes
\* the scale of the viewport lies between MIN_SCALE and MAX_SCALE.
C21_ScaleClamped ==
  /\ FracLeq(MIN_SCALE, viewport.scale) /\ FracLeq(viewport.scale, MAX_SCALE)
  /\ FracLeq(MIN_SCALE, viewport.savedScale) /\ FracLeq(viewport.savedScale, MAX_SCALE)
  /\ FracLeq(MIN_SCALE, currentScale) /\ FracLeq(currentScale, MAX_SCALE)

\* the scale rests at a limit while a fit of the chart would give another scale
C21_Witness ==
  /\ nodes # <<>>
  /\ viewport.scale \in {MIN_SCALE, MAX_SCALE}
  /\ FitViewport(nodes).scale \notin {MIN_SCALE, MAX_SCALE}

\* C22: fitToAllNodes on a chart without nodes leaves the viewport resetView
\* leaves, scale 1 and the centred pan offset, whatever the viewport was.
C22_FitEmptyIsReset ==
  [][(resetView \/ (nodes = <<>> /\ fitToAllNodes)) =>
       /\ viewport'.scale = One
       /\ viewport'.savedScale = One
       /\ currentScale' = One
       /\ viewport'.translateX = initialX
       /\ viewport'.translateY = initialY
       /\ viewport'.savedTranslateX = initialX
       /\ viewport'.savedTranslateY = initialY]_vars

\* a fit of the empty chart has reset a zoomed and panned viewport
C22_Witness ==
  /\ lastOp.name = "fitToAllNodes"
  /\ nodes = <<>>
  /\ lastOp.arg.zoomed
  /\ lastOp.arg.panned
  /\ viewport.scale = One
  /\ viewport.savedTranslateX = initialX

\* C23: the bounding box fitToAllNodes fits contains the whole box of every
\* node, taken with the width and the height of the node's own kind.
C23_FitBoxEnclosesNodes ==
  [][(nodes # <<>> /\ fitToAllNodes) =>
       \A i \in 1..Len(nodes) :
          /\ FitBox(nodes).minX <= nodes[i].x
          /\ FitBox(nodes).minY <= nodes[i].y
          /\ FitBox(nodes).maxX >= nodes[i].x + getNodeDimensions(nodes[i]).width
          /\ FitBox(nodes).maxY >= nodes[i].y + getNodeDimensions(nodes[i]).height]_vars

\* C24: the curve drawn for an edge between two distinct points starts at the
\* start point and ends at the end point exactly, and its 20 segments form
\* one connected polyline: each segment ends where the next one starts.
C24_CurveEndpoints ==
  \A e \in 1..Len(edges) :
     LET r == RenderEdge(edges[e])
         scaled(p) == [x |-> Segments * Segments * Segments * p.x,
                       y |-> Segments * Segments * Segments * p.y]
     IN (r # None /\ r.start # r.end) =>
          /\ Len(r.segments) = 20
          /\ r.segments[1].p1 = scaled(r.start)
          /\ r.segments[20].p2 = scaled(r.end)
          /\ \A i \in 1..19 : r.segments[i].p2 = r.segments[i + 1].p1

\* an edge between two distinct points is drawn while its source node is dragged
C24_Witness ==
  /\ draggingNode # None
  /\ edges # <<>>
  /\ draggingNode.id = edges[1].sourceId
  /\ RenderEdge(edges[1]) # None
  /\ RenderEdge(edges[1]).start # RenderEdge(edges[1]).end
  /\ RenderEdge(edges[1]).segments[10].p2 # RenderEdge(edges[1]).segments[10].p1

\* C30: for every kind of node and every connection point, the point an edge
\* is attached to is computed from the position (x, y), the dragged position
\* while the node is dragged and the node's own otherwise, and the width and
\* height of the kind: top = (x + width/2, y), bottom = (x + width/2,
\* y + height), left = (x + inset, y + height/2), right = (x + width - inset,
\* y + height/2), with an inset that is zero for every kind but the oval.
C30_AnchorPoints ==
  \A e \in 1..Len(edges) :
     LET r == RenderEdge(edges[e])
         anchor(node, position) ==
           LET x == IF draggingNode # None /\ draggingNode.id = node.id
                      THEN draggingNode.x ELSE node.x
               y == IF draggingNode # None /\ draggingNode.id = node.id
                      THEN draggingNode.y ELSE node.y
               width == getNodeDimensions(node).width
               height == getNodeDimensions(node).height
               at == getConnectionPoint(node, position, [x |-> x, y |-> y])
               inset == IF position = "left" THEN at.x - x ELSE x + width - at.x
           IN /\ position = "top" => at = [x |-> x + Half(width), y |-> y]
              /\ position = "bottom" => at = [x |-> x + Half(width), y |-> y + height]
              /\ position = "left" => at.y = y + Half(height)
              /\ position = "right" => at.y = y + Half(height)
              /\ position \in {"left", "right"} =>
                   /\ inset >= 0
                   /\ inset # 0 => node.type = "oval"
                   /\ 2 * inset < width
              /\ \A other \in {[node EXCEPT !.id = <<"node", 0>>, !.label = <<"Node", 0>>]} :
                   getConnectionPoint(other, position, [x |-> x, y |-> y]) = at
     IN r # None =>
          /\ anchor(FindNode(nodes, edges[e].sourceId), edges[e].sourcePosition)
          /\ anchor(FindNode(nodes, edges[e].targetId), edges[e].targetPosition)
          /\ r.start = getConnectionPoint(FindNode(nodes, edges[e].sourceId),
                                           edges[e].sourcePosition,
                                           OverrideOf(FindNode(nodes, edges[e].sourceId)))
          /\ r.end = getConnectionPoint(FindNode(nodes, edges[e].targetId),
                                         edges[e].targetPosition,
                                         OverrideOf(FindNode(nodes, edges[e].targetId)))

\* an edge leaves the right connection point of an oval that is being dragged
C30_Witness ==
  /\ draggingNode # None
  /\ edges # <<>>
  /\ draggingNode.id = edges[1].sourceId
  /\ edges[1].sourcePosition = "right"
  /\ FindNode(nodes, edges[1].sourceId).type = "oval"
  /\ draggingNode.x # FindNode(nodes, edges[1].sourceId).x
  /\ RenderEdge(edges[1]).start.x = draggingNode.x + Px(130) - Px(15)

\* C25: a label edit changes only the label of the node with the given id
\* and pushes no history entry, and the edited label is committed: undoing a
\* later addition of a node leaves every label as it was before the addition.
C25_LabelEdits ==
  [][/\ \A id \in NodeIds(nodes), l \in TypedLabels :
          handleLabelChange(id, l) =>
            /\ Len(nodes') = Len(nodes)
            /\ \A i \in 1..Len(nodes) :
                  nodes'[i] = IF nodes[i].id = id THEN [nodes[i] EXCEPT !.label = l]
                                                  ELSE nodes[i]
            /\ UNCHANGED <<edges, nodeCounter, histVars>>
     /\ (lastOp.name = "addNode" /\ handleUndo) =>
          \A i \in 1..Len(lastOp.doc.nodes) :
             FindNode(nodes', lastOp.doc.nodes[i].id) # None =>
               FindNode(nodes', lastOp.doc.nodes[i].id).label = lastOp.doc.nodes[i].label]_vars

\* C26: a pan of the canvas (move and release), zoomIn, zoomOut, resetView
\* and fitToAllNodes change neither nodes, edges, nodeCounter, the history nor
\* the cursor, and a pan move sets the offset to the resting offset plus the
\* displacement on the screen, not divided by the scale.
C26_NavigationFrame ==
  [][/\ (\/ canvasPanGrant
         \/ \E d \in PanDeltas : canvasPanMove(d)
         \/ canvasPanRelease
         \/ zoomIn
         \/ zoomOut
         \/ resetView
         \/ fitToAllNodes) => UNCHANGED <<docVars, histVars>>
     /\ \A d \in PanDeltas :
          canvasPanMove(d) =>
            /\ viewport'.translateX = FracAdd(viewport.savedTranslateX, <<d[1], 1>>)
            /\ viewport'.translateY = FracAdd(viewport.savedTranslateY, <<d[2], 1>>)
            /\ viewport'.scale = viewport.scale
     /\ canvasPanRelease =>
          /\ viewport'.savedTranslateX = viewport.translateX
          /\ viewport'.savedTranslateY = viewport.translateY
          /\ viewport'.translateX = viewport.translateX
          /\ viewport'.translateY = viewport.translateY
          /\ viewport'.scale = viewport.scale]_vars

\* a pan has moved the canvas of a chart with a node and a history, at a scale other than 1
C26_Witness ==
  /\ responder.kind = "canvas"
  /\ viewport.scale # One
  /\ viewport.translateX # viewport.savedTranslateX
  /\ nodes # <<>>
  /\ Len(history) > 1

\* C27: the load at startup leaves nodes, edges, nodeCounter and the history
\* as they are when nothing is stored, the read fails or the stored text
\* does not parse; when an object is parsed, nodes, edges and nodeCounter
\* are its fields, each missing one replaced on its own by [], [] and 1, and
\* the history is the single entry holding that document.
C27_LoadDefaults ==
  [][loadState =>
       IF pendingLoad.kind = "object"
         THEN /\ nodes' = IF "nodes" \in DOMAIN pendingLoad.obj
                            THEN pendingLoad.obj.nodes ELSE <<>>
              /\ edges' = IF "edges" \in DOMAIN pendingLoad.obj
                            THEN pendingLoad.obj.edges ELSE <<>>
              /\ nodeCounter' = IF "nodeCounter" \in DOMAIN pendingLoad.obj
                                  THEN pendingLoad.obj.nodeCounter ELSE 1
              /\ history' = <<LiveDoc'>>
         ELSE UNCHANGED <<docVars, histVars>>]_vars

\* a stored object holding nodes only has been loaded: the nodes are the
\* stored ones, edges and nodeCounter are the defaults
C27_Witness ==
  /\ pendingLoad = None
  /\ nodes = StoredChart.nodes
  /\ edges = <<>>
  /\ nodeCounter = 1
  /\ history = <<LiveDoc>>

\* the step issues a write to AsyncStorage
WriteIssued == \E ok \in BOOLEAN : saveState(ok)

\* what C28 and its amendment share: a change of the document replaces the
\* pending timeout by one for the new document, due after the full delay;
\* a write is issued only when the delay has passed since the last change and
\* carries the live document; the stored item holds nodes, edges and
\* nodeCounter and nothing else.
DebouncedSaves ==
  /\ [][/\ (docVars' # docVars) =>
             saveTimer' = Timeout(LiveDoc', now + SaveDelay)
        /\ WriteIssued =>
             /\ saveTimer.doc = LiveDoc
             /\ now >= saveTimer.due
             /\ storage' \in {storage, Stored(LiveDoc)}]_vars
  /\ [](storage.kind = "object" => DOMAIN storage.obj = {"nodes", "edges", "nodeCounter"})

\* C28: saves are debounced, and once the changes stop the stored item
\* eventually equals the live document.
C28_DebouncedSave ==
  /\ DebouncedSaves
  /\ <>[](saveTimer.kind = "ran" /\ storage = Stored(LiveDoc))

\* C28 amended: saves are debounced, and once the changes stop the write of
\* the live document is eventually issued; the stored item then equals the
\* live document unless that write failed.
C28_DebouncedSaveUnlessFailed ==
  /\ DebouncedSaves
  /\ <>[](/\ saveTimer.kind = "ran"
          /\ saveTimer.ok => storage = Stored(LiveDoc))

\* the write of a chart whose timeout was set anew within the delay has succeeded
C28_Witness ==
  /\ saveTimer.kind = "ran"
  /\ saveTimer.ok
  /\ Len(nodes) = 2
  /\ storage = Stored(LiveDoc)
  /\ \E i \in 1..Len(nodes) : nodes[i].id = <<"node", StartTime + 250>>

\* C29: a save whose write fails changes neither nodes, edges, nodeCounter,
\* the history nor the cursor, and after it a change of the document sets
\* the timeout of the next save as usual.
C29_FailedSaveFrame ==
  [][/\ saveState(FALSE) =>
          /\ UNCHANGED <<docVars, histVars>>
          /\ storage' = storage
     /\ (saveTimer = [kind |-> "ran", ok |-> FALSE] /\ PushStep) =>
          /\ LiveDoc' = history'[historyIndex' + 1]
          /\ saveTimer' = Timeout(LiveDoc', now + SaveDelay)
     /\ (lastOp.pushed /\ saveState(TRUE)) => storage' = Stored(LiveDoc)]_vars

\* the write of a chart with a node and two history entries has failed
C29_Witness ==
  /\ saveTimer = [kind |-> "ran", ok |-> FALSE]
  /\ nodes # <<>>
  /\ Len(history) >= 2
  /\ storage # Stored(LiveDoc)

\* the release of an edge drag: the pointer-down was not a double tap
EdgeDragReleased(d) == connectionRelease(d) /\ ~responder.double

\* the drop point of the release
DropOf(d) == DropPoint(FindNode(nodes, responder.id), responder.position, d)

\* the node's own bounding box, widened by the margin on every side, holds the point
InExpandedBox(drop, node) ==
  /\ drop.x >= node.x - Px(HitMargin)
  /\ drop.x <= node.x + getNodeDimensions(node).width + Px(HitMargin)
  /\ drop.y >= node.y - Px(HitMargin)
  /\ drop.y <= node.y + getNodeDimensions(node).height + Px(HitMargin)

\* index of the first node other than the source whose widened box holds the
\* point, 0 when there is none
TargetIndex(ns, sourceId, drop) ==
  LET hits == {i \in 1..Len(ns) : ns[i].id # sourceId /\ InExpandedBox(drop, ns[i])}
  IN IF hits = {} THEN 0 ELSE CHOOSE i \in hits : \A j \in hits : i <= j

\* squared distance from the point to the node's connection point
AnchorDist2(drop, node, pos) ==
  LET point == getConnectionPoint(node, pos, node)
  IN (drop.x - point.x) * (drop.x - point.x) + (drop.y - point.y) * (drop.y - point.y)

\* the nearer of the top and bottom connection points, top when they are equally near
NearestAnchor(drop, node) ==
  IF AnchorDist2(drop, node, "bottom") < AnchorDist2(drop, node, "top") THEN "bottom" ELSE "top"

\* C31: the release of an edge drag takes as target the first node of the
\* node list, other than the source, whose own bounding box widened by 20 on
\* every side holds the drop point (boundary included), and no target when
\* there is no such node.
C31_HitTarget ==
  [][\A d \in ConnectDeltas :
       EdgeDragReleased(d) =>
         LET t == TargetIndex(nodes, responder.id, DropOf(d))
         IN IF t = 0
              THEN edges' = edges
              ELSE /\ Len(edges') = Len(edges) + 1
                   /\ edges'[Len(edges')].targetId = nodes[t].id]_vars

\* C32: the target anchor of a dropped edge is the top or bottom connection
\* point of the target node nearest to the drop point, measured to the points
\* getConnectionPoint gives for the node's kind; top wins when both are
\* equally near.
C32_NearestAnchor ==
  [][\A d \in ConnectDeltas :
       (EdgeDragReleased(d) /\ HitIndex(nodes, responder.id, DropOf(d)) # 0) =>
         LET hit == HitIndex(nodes, responder.id, DropOf(d))
         IN /\ Len(edges') = Len(edges) + 1
            /\ edges'[Len(edges')].targetPosition \in {"top", "bottom"}
            /\ edges'[Len(edges')].targetPosition = NearestAnchor(DropOf(d), nodes[hit])]_vars

\* C34: an edge drag released over a target node appends one edge at the end
\* of the edge list, from the node and connection point the drag started at
\* to the target node and its nearest connection point, leaves nodes and
\* nodeCounter unchanged and pushes one history entry.
C34_DropAddsEdge ==
  [][\A d \in ConnectDeltas :
       (EdgeDragReleased(d) /\ TargetIndex(nodes, responder.id, DropOf(d)) # 0) =>
         LET target == nodes[TargetIndex(nodes, responder.id, DropOf(d))]
         IN /\ edges' = Append(edges,
                               [id |-> <<"edge", now>>,
                                sourceId |-> responder.id,
                                sourcePosition |-> responder.position,
                                targetId |-> target.id,
                                targetPosition |-> NearestAnchor(DropOf(d), target)])
            /\ UNCHANGED <<nodes, nodeCounter>>
            /\ history' \in {Append(Kept, LiveDoc'), Tail(Append(Kept, LiveDoc'))}
            /\ historyIndex' = Len(history') - 1]_vars

\* C36: when an edge drag is released where the rubber-band line ends, the
\* drop point of the hit test is the end point of the line, for every kind
\* of source node and both connection points.
C36_DropAtLineEnd ==
  [][\A d \in ConnectDeltas :
       (/\ EdgeDragReleased(d)
        /\ dragLine # None
        /\ dragLine.endX = dragLine.startX + ScaleDiv(Px(d[1]), currentScale)
        /\ dragLine.endY = dragLine.startY + ScaleDiv(Px(d[2]), currentScale))
       => DropOf(d) = [x |-> dragLine.endX, y |-> dragLine.endY]]_vars

\* C37: the rubber-band line exists exactly when a connecting source is
\* recorded; the pointer-down of an edge drag puts its start at the source
\* connection point, and the start stays there while the drag goes on.
C37_LineWithSource ==
  /\ []((dragLine # None) <=> (connectingFrom # None))
  /\ []((responder # None /\ responder.kind = "connection") =>
          /\ connectingFrom = [nodeId |-> responder.id, position |-> responder.position]
          /\ [x |-> dragLine.startX, y |-> dragLine.startY] =
               getConnectionPoint(FindNode(nodes, responder.id), responder.position,
                                  FindNode(nodes, responder.id)))
  /\ [][(dragLine # None /\ dragLine' # None /\ responder' = responder) =>
          /\ dragLine'.startX = dragLine.startX
          /\ dragLine'.startY = dragLine.startY]_vars

\* a zoomed edge drag from a diamond has moved the end of the line
C37_Witness ==
  /\ responder # None
  /\ responder.kind = "connection"
  /\ FindNode(nodes, responder.id).type = "diamond"
  /\ currentScale # One
  /\ dragLine # None
  /\ dragLine.endY # dragLine.startY

\* the touch of an edge drag is lifted, on a mounted or an unmounted node
EdgeDragPointerUp ==
  /\ responder # None
  /\ responder.kind = "connection"
  /\ ~responder.double
  /\ (\E d \in GestureDeltas : connectionRelease(d)) \/ touchEndUnmounted

\* C33: after the pointer-up of an edge drag connectingFrom and dragLine are
\* both null, whether or not a target was found; when none was found the
\* pointer-up leaves the document, the history and the cursor as they were.
C33_DragEndsIdle ==
  [][EdgeDragPointerUp =>
       /\ connectingFrom' = None
       /\ dragLine' = None
       /\ (\A d \in GestureDeltas :
             (connectionRelease(d) /\ HitIndex(nodes, responder.id, DropOf(d)) = 0)
               => UNCHANGED <<docVars, histVars>>)]_vars

\* where an end of an edge is drawn from: the live position of the node when
\* it is the dragged one, else its committed position
RoutedFrom(nodeId, position) ==
  LET node == FindNode(nodes, nodeId)
  IN getConnectionPoint(node, position,
                        IF draggingNode # None /\ draggingNode.id = nodeId
                          THEN [x |-> draggingNode.x, y |-> draggingNode.y]
                          ELSE [x |-> node.x, y |-> node.y])

\* C35: the start and every move of a node drag leave nodes, edges,
\* nodeCounter, history and cursor unchanged; a move sets draggingNode to the
\* dragged id at node position + pointer displacement / scale; the ends of
\* edges on the dragged node are drawn from that position and all other ends
\* from committed positions; the pointer-up clears draggingNode.
C35_LiveOverride ==
  /\ [][\A d \in LiveDragDeltas :
          /\ (\E id \in NodeIds(nodes) : nodeDragStart(id, d))
                => UNCHANGED <<docVars, histVars, draggingNode>>
          /\ nodeDragMove(d) =>
                /\ UNCHANGED <<docVars, histVars>>
                /\ draggingNode' =
                     [id |-> responder.id,
                      x |-> PositionOf(nodes, responder.id).x
                              + ScaleDiv(Px(d[1]), currentScale),
                      y |-> PositionOf(nodes, responder.id).y
                              + ScaleDiv(Px(d[2]), currentScale)]
          /\ nodeDragRelease(d) => draggingNode' = None]_vars
  /\ [](\A i \in 1..Len(edges) :
          /\ RenderEdge(edges[i]).start = RoutedFrom(edges[i].sourceId, edges[i].sourcePosition)
          /\ RenderEdge(edges[i]).end = RoutedFrom(edges[i].targetId, edges[i].targetPosition))

\* at a zoom level other than 1 the middle node of the chain is dragged away
\* from its committed position: one end of each edge is on it, the other is not
C35_Witness ==
  /\ draggingNode # None
  /\ draggingNode.id = <<"node", 900>>
  /\ currentScale # One
  /\ draggingNode.y # PositionOf(nodes, draggingNode.id).y
  /\ RenderEdge(edges[1]).end.y # getConnectionPoint(nodes[2], "top", nodes[2]).y
  /\ RenderEdge(edges[1]).start = getConnectionPoint(nodes[1], "bottom", nodes[1])

\* C38: a push onto a full history evicts exactly the oldest entry and keeps
\* the order of the others, and the entry that becomes the oldest is not the
\* empty document; a push leaves the cursor on the last entry; an undo moves
\* the cursor one entry down and restores that entry until the cursor is on
\* the oldest retained entry, where one more undo changes nothing.
C38_EvictOldest ==
  [][/\ PushStep =>
          /\ history' = IF Len(Kept) = HistoryLimit
                           THEN Append(Tail(Kept), LiveDoc')
                           ELSE Append(Kept, LiveDoc')
          /\ historyIndex' = Len(history') - 1
          /\ Len(Kept) = HistoryLimit => history'[1].nodes # <<>>
     /\ handleUndo =>
          IF historyIndex = 0
            THEN UNCHANGED <<docVars, histVars>>
            ELSE /\ historyIndex' = historyIndex - 1
                 /\ history' = history
                 /\ LiveDoc' = history[historyIndex]]_vars

\* after the node was added and dragged 59 times, 49 undos from the last of
\* the 50 entries have reached the oldest, which holds the node, and one more
\* undo was tried there
C38_Witness ==
  /\ lastOp.name = "handleUndo"
  /\ lastOp.idx = 0
  /\ historyIndex = 0
  /\ Len(history) = HistoryLimit
  /\ history[HistoryLimit].nodes[1].x = DefaultX + 59 * Px(LongDelta[1])
  /\ nodes = history[1].nodes
  /\ nodes # <<>>

\* C39: addNode(kind) appends one node of that kind at the end of the node
\* list, at the default position, labelled with the counter it found,
\* increases nodeCounter by one, leaves the nodes it found and all edges
\* unchanged and pushes one history entry.
C39_AddNode ==
  [][\A t \in LoadKinds :
       addNode(t) =>
         /\ Len(nodes') = Len(nodes) + 1
         /\ SubSeq(nodes', 1, Len(nodes)) = nodes
         /\ nodes'[Len(nodes')].type = t
         /\ nodes'[Len(nodes')].x = Half(Px(CANVAS_SIZE)) - Px(75)
         /\ nodes'[Len(nodes')].y = Half(Px(CANVAS_SIZE)) - Px(25)
         /\ nodes'[Len(nodes')].label = <<"Node", nodeCounter>>
         /\ nodeCounter' = nodeCounter + 1
         /\ edges' = edges
         /\ history' \in {Append(Kept, LiveDoc'), Tail(Append(Kept, LiveDoc'))}
         /\ historyIndex' = Len(history') - 1]_vars

\* an oval was added to the loaded chart of two nodes and an edge
C39_Witness ==
  /\ lastOp.name = "addNode"
  /\ lastOp.doc.nodes = StoredChart.nodes
  /\ lastOp.doc.edges = StoredChart.edges
  /\ Len(nodes) = 3
  /\ nodes[3].type = "oval"
  /\ nodes[3].label = <<"Node", 3>>
  /\ nodeCounter = 4

====
